---- MODULE Spec2Model ----
(***************************************************************************)
(* Chicago crimes dashboard: the load -> derive -> filter -> aggregate     *)
(* chain of the four Streamlit scripts of the repository                   *)
(*   "app"        src/app.py                                               *)
(*   "checkpoint" src/.ipynb_checkpoints/app-checkpoint.py                 *)
(*   "fp3"        src/project/project fp3/app.py                           *)
(*   "fp2"        src/project/project fp2/app_experiment.py                *)
(* One script run (a Streamlit rerun, top to bottom) is one action; the    *)
(* st.cache_data memos survive between runs.                               *)
(*                                                                         *)
(* A table is [cols |-> set of column names, rows |-> sequence of rows],   *)
(* a row is a function from the table's columns to cells, a cell is        *)
(* [k |-> kind, v |-> text] where kind is the value's Python type as       *)
(* pandas.read_csv delivers it ("bool", "int", "float", "str", "na") and   *)
(* text is what str(value) gives.  The text of a flag cell (Arrest,        *)
(* Domestic) is a sequence of characters, because the code strips and      *)
(* upper-cases it; the text of every other cell is only ever compared.     *)
(***************************************************************************)
EXTENDS Integers, Sequences, FiniteSets, TLC

\* ------------------------------------------------------------------ bounds
MaxRows == 2        \* rows of an enumerated source file
NumYears == 2       \* how many of the registered years the model keeps
MaxActive == 2      \* widgets a run sets away from their "no restriction" value
MaxRuns == 2        \* script runs of one process in the loading specification
NumSessions == 2    \* browser sessions one process serves at most
TopCap == 1         \* the most entries a top-N table keeps (15 for the types, 20
                    \* for the locations in the source)
SampleCap == 1      \* the most rows a spatial sample keeps (5000, 3000 and 8000 in
                    \* the scripts, scaled to the files of the model)

\* --------------------------------------------------------------- constants
RangeStart == 2010
RangeStop == 2021

\* the registered years: the last NumYears keys of YEAR_TO_FILE
YEAR_TO_FILE == { y \in RangeStart..(RangeStop - 1) : y >= RangeStop - NumYears }

Variants == {"app", "checkpoint", "fp3", "fp2"}

GeoCols == <<"District", "Ward", "Community Area", "Beat">>
FlagCols == <<"Arrest", "Domestic">>
AllCols == {"Primary Type", "District", "Ward", "Community Area", "Beat",
            "Location Description", "Arrest", "Domestic", "Date", "Latitude", "Longitude"}

\* the columns the loaders derive from Date
TemporalCols == {"Year", "Month", "YearMonth", "Weekday", "Hour"}

Range(s) == { s[i] : i \in DOMAIN s }

\* ------------------------------------------------------------------- cells
NA == [k |-> "na", v |-> "nan"]
FlagNA == [k |-> "na", v |-> <<"n", "a", "n">>]
IsNA(c) == c.k = "na"
StrCell(s) == [k |-> "str", v |-> s]
FloatCell(s) == [k |-> "float", v |-> s]
IntCell(s) == [k |-> "int", v |-> s]
PyTrue == [k |-> "bool", v |-> <<"T", "r", "u", "e">>]
PyFalse == [k |-> "bool", v |-> <<"F", "a", "l", "s", "e">>]
BoolCell(b) == IF b THEN PyTrue ELSE PyFalse
NAof(col) == IF col \in Range(FlagCols) THEN FlagNA ELSE NA
NaT == [k |-> "na", v |-> "NaT"]
DatetimeCell(s) == [k |-> "datetime", v |-> s]

\* x == True / x == False as Python compares: True == 1 == 1.0
EqTrue(c) ==
    c \in {PyTrue, [k |-> "int", v |-> <<"1">>], [k |-> "float", v |-> <<"1", ".", "0">>]}
EqFalse(c) ==
    c \in {PyFalse, [k |-> "int", v |-> <<"0">>], [k |-> "float", v |-> <<"0", ".", "0">>]}

\* ----------------------------------------------------------------- strings
LowerLetters == <<"a","b","c","d","e","f","g","h","i","j","k","l","m",
                  "n","o","p","q","r","s","t","u","v","w","x","y","z">>
UpperLetters == <<"A","B","C","D","E","F","G","H","I","J","K","L","M",
                  "N","O","P","Q","R","S","T","U","V","W","X","Y","Z">>
Whitespace == {" ", "\t"}

UpperChar(c) ==
    IF \E i \in DOMAIN LowerLetters : LowerLetters[i] = c
    THEN UpperLetters[CHOOSE i \in DOMAIN LowerLetters : LowerLetters[i] = c]
    ELSE c

\* str.upper()
StrUpper(s) == [i \in DOMAIN s |-> UpperChar(s[i])]

RECURSIVE LStrip(_)
LStrip(s) == IF s # <<>> /\ Head(s) \in Whitespace THEN LStrip(Tail(s)) ELSE s

RECURSIVE RStrip(_)
RStrip(s) ==
    IF s # <<>> /\ s[Len(s)] \in Whitespace THEN RStrip(SubSeq(s, 1, Len(s) - 1)) ELSE s

\* str.strip()
StrStrip(s) == RStrip(LStrip(s))

\* ------------------------------------------------------------------ tables
EmptyFrame == [cols |-> {}, rows |-> <<>>]          \* pd.DataFrame()
MapRows(t, F(_)) == [cols |-> t.cols, rows |-> [i \in DOMAIN t.rows |-> F(t.rows[i])]]
KeepRows(t, P(_)) == [cols |-> t.cols, rows |-> SelectSeq(t.rows, P)]
IsEmpty(t) == t.rows = <<>>                          \* df.empty (no rows; a frame
                                                     \* with rows has columns here)

\* pd.concat(frames, ignore_index=True): rows in frame order, columns are the
\* union, a column a frame lacks is filled with NaN
RECURSIVE ConcatRows(_, _)
ConcatRows(frames, cols) ==
    IF frames = <<>> THEN <<>>
    ELSE LET f == Head(frames)
             widen(r) == [c \in cols |-> IF c \in f.cols THEN r[c] ELSE NAof(c)]
         IN [i \in DOMAIN f.rows |-> widen(f.rows[i])] \o ConcatRows(Tail(frames), cols)

\* mutant: the concatenation followed by drop_duplicates()
RECURSIVE DropDuplicates(_)
DropDuplicates(rows) ==
    IF rows = <<>> THEN <<>>
    ELSE LET front == DropDuplicates(SubSeq(rows, 1, Len(rows) - 1))
         IN IF \E i \in DOMAIN front : front[i] = rows[Len(rows)]
            THEN front ELSE Append(front, rows[Len(rows)])

ConcatDistinct(frames) ==
    [cols |-> UNION { frames[i].cols : i \in DOMAIN frames },
     rows |-> DropDuplicates(ConcatRows(frames, UNION { frames[i].cols : i \in DOMAIN frames }))]

\* mutant: the frames joined last year first
ConcatReversed(frames) ==
    [cols |-> UNION { frames[i].cols : i \in DOMAIN frames },
     rows |-> ConcatRows([i \in DOMAIN frames |-> frames[Len(frames) + 1 - i]],
                         UNION { frames[i].cols : i \in DOMAIN frames })]

Concat(frames) ==
    LET cols == UNION { frames[i].cols : i \in DOMAIN frames }
    IN [cols |-> cols, rows |-> ConcatRows(frames, cols)]

\* ------------------------------------------------------------ normalisation
TRUE_TOKENS == { <<"T","R","U","E">>, <<"T">>, <<"1">>, <<"Y","E","S">>, <<"Y">> }

\* app.py: .astype(str).str.strip().str.upper().isin(["TRUE","T","1","YES","Y"])
NormalizeFlagApp(c) == BoolCell(StrUpper(StrStrip(c.v)) \in TRUE_TOKENS)

\* checkpoint: .fillna(False)
NormalizeFlagCheckpoint(c) == IF IsNA(c) THEN PyFalse ELSE c

NormalizeFlag(var, c) ==
    CASE var = "app" -> NormalizeFlagApp(c)
      [] var = "checkpoint" -> NormalizeFlagCheckpoint(c)
      [] OTHER -> c

\* app.py, fp3: .astype("string") keeps a missing value missing
AsTypeString(c) == IF IsNA(c) THEN c ELSE StrCell(c.v)
\* checkpoint: .astype(str) turns a missing value into the text "nan"
AsTypeStr(c) == StrCell(c.v)

NormalizeGeo(var, col, c) ==
    CASE var = "app" -> AsTypeString(c)
      [] var = "checkpoint" -> AsTypeStr(c)
      [] var = "fp3" /\ col = "District" -> AsTypeString(c)
      [] OTHER -> c

\* the dates of the model: the text of the source, what pd.to_datetime makes
\* of it, and what the .dt accessors give (as int64, and as float64 when the
\* column also holds NaT)
Calendar ==
    { [raw |-> "01/15/2020 01:30:00 PM", iso |-> "2020-01-15 13:30:00",
       year |-> "2020", yearf |-> "2020.0", month |-> "1", monthf |-> "1.0",
       ym |-> "2020-01-01 00:00:00", weekday |-> "Wednesday",
       hour |-> "13", hourf |-> "13.0"],
      [raw |-> "03/02/2019 09:05:00 AM", iso |-> "2019-03-02 09:05:00",
       year |-> "2019", yearf |-> "2019.0", month |-> "3", monthf |-> "3.0",
       ym |-> "2019-03-01 00:00:00", weekday |-> "Saturday",
       hour |-> "9", hourf |-> "9.0"] }

Parseable(text) == \E e \in Calendar : e.raw = text
CalendarOfRaw(text) == CHOOSE e \in Calendar : e.raw = text
CalendarOfIso(text) == CHOOSE e \in Calendar : e.iso = text

\* pd.to_datetime(x, errors="coerce") for one value: a datetime stays, a text
\* is parsed, anything that does not parse (and a missing value) is NaT
\* mutant: errors="ignore", which leaves what does not parse as it is
ToDatetimeIgnore(c) ==
    IF c.k = "str" /\ Parseable(c.v) THEN DatetimeCell(CalendarOfRaw(c.v).iso) ELSE c

\* mutant: a parser that takes a datetime for a text it cannot read
ToDatetimeTextOnly(c) ==
    IF c.k = "str" /\ Parseable(c.v) THEN DatetimeCell(CalendarOfRaw(c.v).iso) ELSE NaT

ToDatetime(c) ==
    IF c.k = "datetime" THEN c
    ELSE IF c.k = "str" /\ Parseable(c.v) THEN DatetimeCell(CalendarOfRaw(c.v).iso)
    ELSE NaT

\* pd.api.types.is_datetime64_any_dtype(df["Date"])
IsDatetimeColumn(t, col) ==
    \A i \in DOMAIN t.rows : t.rows[i][col].k = "datetime" \/ t.rows[i][col] = NaT

\* .dt.year / .dt.month / .dt.hour of one value; widen says that the column
\* holds a NaT, which makes the result float64
DtYear(c, widen) ==
    IF c.k # "datetime" THEN NA
    ELSE IF widen THEN FloatCell(CalendarOfIso(c.v).yearf) ELSE IntCell(CalendarOfIso(c.v).year)
DtMonth(c, widen) ==
    IF c.k # "datetime" THEN NA
    ELSE IF widen THEN FloatCell(CalendarOfIso(c.v).monthf) ELSE IntCell(CalendarOfIso(c.v).month)
DtHour(c, widen) ==
    IF c.k # "datetime" THEN NA
    ELSE IF widen THEN FloatCell(CalendarOfIso(c.v).hourf) ELSE IntCell(CalendarOfIso(c.v).hour)
\* .dt.to_period("M").dt.to_timestamp()
DtYearMonth(c) == IF c.k # "datetime" THEN NaT ELSE DatetimeCell(CalendarOfIso(c.v).ym)
\* .dt.day_name()
DtDayName(c) == IF c.k # "datetime" THEN NA ELSE StrCell(CalendarOfIso(c.v).weekday)

\* df["Date"] = pd.to_datetime(df["Date"], errors="coerce"), which app.py and
\* the checkpoint skip for a column that is datetime already
ParseDates(var, t) ==
    IF var \in {"app", "checkpoint"} /\ IsDatetimeColumn(t, "Date")
    THEN t
    ELSE MapRows(t, LAMBDA r : [r EXCEPT !["Date"] = ToDatetime(r["Date"])])

HasNaT(t) == \E j \in DOMAIN t.rows : t.rows[j]["Date"] = NaT

\* the columns derived from the parsed Date (fp3 has no Weekday)
DerivedCols(var) == IF var = "fp3" THEN TemporalCols \ {"Weekday"} ELSE TemporalCols

AddTemporal(var, t) ==
    [cols |-> t.cols \cup DerivedCols(var),
     rows |-> [i \in DOMAIN t.rows |->
                 [c \in t.cols \cup DerivedCols(var) |->
                    CASE c = "Year" -> DtYear(t.rows[i]["Date"], HasNaT(t))
                      [] c = "Month" -> DtMonth(t.rows[i]["Date"], HasNaT(t))
                      [] c = "Hour" -> DtHour(t.rows[i]["Date"], HasNaT(t))
                      [] c = "YearMonth" -> DtYearMonth(t.rows[i]["Date"])
                      [] c = "Weekday" -> DtDayName(t.rows[i]["Date"])
                      [] OTHER -> t.rows[i][c]]]]

\* the temporal derivation: if "Date" in df.columns: parse it and derive.
\* (Without a Date column app.py and the checkpoint make a Year column
\* numeric; the files of the model have no Year column.)
DeriveTemporal(var, t) ==
    IF "Date" \in t.cols THEN AddTemporal(var, ParseDates(var, t)) ELSE t

\* the column normalisation of load_multi_year_data (app, checkpoint) and of
\* load_year_data (fp3)
NormalizeColumns(var, t) ==
    LET norm(r) ==
          [c \in t.cols |->
             IF c \in Range(GeoCols) THEN NormalizeGeo(var, c, r[c])
             ELSE IF c \in Range(FlagCols) THEN NormalizeFlag(var, r[c])
             ELSE IF c = "Primary Type" /\ var = "fp3" THEN AsTypeString(r[c])
             ELSE r[c]]
    IN MapRows(t, norm)

\* what the loader does to the rows it has read: app, checkpoint, fp3 derive
\* the temporal columns and normalise; fp2 only parses the date
Derive(var, t) ==
    IF var = "fp2"
    THEN IF "Date" \in t.cols THEN ParseDates(var, t) ELSE t
    ELSE NormalizeColumns(var, DeriveTemporal(var, t))

\* ------------------------------------------------------------------- state
VARIABLES
    variant,          \* which of the four scripts this process runs
    files,            \* source store: year -> [exists, df]
    year_cache,       \* st.cache_data memo of load_year_data: year -> [hit, df]
    multi_cache,      \* st.cache_data memo of load_multi_year_data: years -> [hit, df]
    reads,            \* year -> how many times pd.read_csv / the API returned its rows
    runs_left,        \* script runs this process still serves
    selected_years,   \* the years of the last run
    data,             \* the loaded table of the last run
    selected,         \* the widget values of the last run
    filtered,         \* the filtered table of the last run
    driver_df,        \* app: groupby("Primary Type").size()
    driver_chart,     \* app: the bars of driver_df in the order sort="-y" shows them
    spatial_sample,   \* the rows the map of the last run shows
    arrest_df,        \* app: groupby("Primary Type")["Arrest"].mean()
    crime_by_type,    \* checkpoint: counts by type, descending, head(top_n)
    type_counts,      \* checkpoint: counts by type, descending
    crime_counts,     \* fp2: df["primary_type"].value_counts()
    message,          \* the st.error / st.warning the run showed ("" when none)
    outcome,          \* how the last run ended
    sessions,         \* the browser sessions connected to this process
    session,          \* the session whose script run was the last one
    views,            \* session -> what its last script run left on its page
    monthly,          \* ym_counts / monthly / trend_df / monthly_counts of the last run
    loc_counts,       \* checkpoint: counts by location, descending, head(20)
    metrics,          \* arrest_rate and domestic_share of the last run
    flight,           \* session -> where its call of load_year_data stands
    lock              \* year -> the session computing the memo entry (0: none)

vars == <<variant, files, year_cache, multi_cache, reads, runs_left, selected_years, data,
          selected, filtered, driver_df, driver_chart, spatial_sample, arrest_df, crime_by_type, type_counts,
          crime_counts, message, outcome, sessions, session, views, monthly, loc_counts,
          metrics, flight, lock>>

\* ------------------------------------------------------------------ loading
NotCached == [hit |-> FALSE, df |-> EmptyFrame, msg |-> ""]

\* mutant: a memo that never answers
CachedNever(memo, key) == FALSE

\* @st.cache_data: a call whose arguments were seen before returns the stored value
Cached(memo, key) == memo[key].hit

\* what load_year_data returns for a file that is there: its rows, which fp3
\* derives and fp2 parses right away
YearText(year) ==
    <<"2010", "2011", "2012", "2013", "2014", "2015", "2016", "2017", "2018", "2019",
      "2020">>[year - RangeStart + 1]

\* fp3: a file without Date and without Year gets df["Year"] = year
FillYear(t, year) ==
    IF "Date" \in t.cols \/ "Year" \in t.cols THEN t
    ELSE [cols |-> t.cols \cup {"Year"},
          rows |-> [i \in DOMAIN t.rows |->
                      [c \in t.cols \cup {"Year"} |->
                         IF c = "Year" THEN IntCell(YearText(year)) ELSE t.rows[i][c]]]]

\* mutant: every variant derives the rows of a year as soon as it has read them
ReadCsvDerived(var, df, year) == Derive(var, df)

ReadCsv(var, df, year) ==
    CASE var = "fp3" -> Derive(var, FillYear(df, year))
      [] var = "fp2" -> Derive(var, df)
      [] OTHER -> df

\* load_year_data(year).  app, checkpoint: read the file, an absent file makes
\* pd.read_csv raise.  fp3: an absent file gives st.error and an empty frame,
\* a present one is derived.  fp2: a non-200 answer gives st.error and an empty
\* frame.  Only a call that returns is stored in the memo, together with the
\* st.* elements it showed, which a later hit replays.
\* mutant: a failed load is handed back but not stored
LoadYearDataForgetsFailure(var, year, yc, rd, fs) ==
    IF Cached(yc, year)
    THEN [raised |-> FALSE, df |-> yc[year].df, yc |-> yc, rd |-> rd, msg |-> yc[year].msg]
    ELSE IF ~ fs[year].exists
    THEN [raised |-> var \notin {"fp3", "fp2"}, df |-> EmptyFrame, yc |-> yc, rd |-> rd,
          msg |-> IF var \in {"fp3", "fp2"} THEN "error: could not load year"
                  ELSE "FileNotFoundError"]
    ELSE [raised |-> FALSE, df |-> ReadCsv(var, fs[year].df, year),
          yc |-> [yc EXCEPT ![year] = [hit |-> TRUE, df |-> ReadCsv(var, fs[year].df, year),
                                       msg |-> ""]],
          rd |-> [rd EXCEPT ![year] = @ + 1], msg |-> ""]

LoadYearData(var, year, yc, rd, fs) ==
    IF Cached(yc, year)
    THEN [raised |-> FALSE, df |-> yc[year].df, yc |-> yc, rd |-> rd, msg |-> yc[year].msg]
    ELSE IF ~ fs[year].exists
    THEN IF var \in {"fp3", "fp2"}
         THEN [raised |-> FALSE, df |-> EmptyFrame,
               yc |-> [yc EXCEPT ![year] = [hit |-> TRUE, df |-> EmptyFrame,
                                            msg |-> "error: could not load year"]],
               rd |-> rd, msg |-> "error: could not load year"]
         ELSE [raised |-> TRUE, df |-> EmptyFrame, yc |-> yc, rd |-> rd,
               msg |-> "FileNotFoundError"]
    ELSE [raised |-> FALSE, df |-> ReadCsv(var, fs[year].df, year),
          yc |-> [yc EXCEPT ![year] = [hit |-> TRUE, df |-> ReadCsv(var, fs[year].df, year),
                                       msg |-> ""]],
          rd |-> [rd EXCEPT ![year] = @ + 1], msg |-> ""]

\* frames = [load_year_data(y) for y in years]: left to right, the first
\* exception ends the comprehension, the memo entries made before it stay
FramesRaised(one) ==
    [raised |-> TRUE, frames |-> <<>>, yc |-> one.yc, rd |-> one.rd, msg |-> one.msg]

FramesJoined(one, rest) ==
    [raised |-> rest.raised,
     frames |-> IF rest.raised THEN <<>> ELSE <<one.df>> \o rest.frames,
     yc |-> rest.yc, rd |-> rest.rd, msg |-> rest.msg]

RECURSIVE LoadFrames(_, _, _, _, _)
LoadFramesAfter(var, years, one, fs) ==
    IF one.raised
    THEN FramesRaised(one)
    ELSE FramesJoined(one, LoadFrames(var, Tail(years), one.yc, one.rd, fs))

LoadFrames(var, years, yc, rd, fs) ==
    IF years = <<>>
    THEN [raised |-> FALSE, frames |-> <<>>, yc |-> yc, rd |-> rd, msg |-> ""]
    ELSE LoadFramesAfter(var, years, LoadYearData(var, Head(years), yc, rd, fs), fs)

\* the body of load_multi_year_data once the frames are there: concat, derive,
\* store in the memo
MultiYearResult(var, years, mc, fr) ==
    IF fr.raised
    THEN [raised |-> TRUE, df |-> EmptyFrame, yc |-> fr.yc, mc |-> mc, rd |-> fr.rd,
          msg |-> fr.msg]
    ELSE [raised |-> FALSE, df |-> Derive(var, Concat(fr.frames)), yc |-> fr.yc,
          mc |-> [mc EXCEPT ![years] = [hit |-> TRUE, df |-> Derive(var, Concat(fr.frames)),
                                        msg |-> ""]],
          rd |-> fr.rd, msg |-> ""]

\* load_multi_year_data(years) of app and checkpoint
LoadMultiYearData(var, years, yc, mc, rd, fs) ==
    IF Cached(mc, years)
    THEN [raised |-> FALSE, df |-> mc[years].df, yc |-> yc, mc |-> mc, rd |-> rd,
          msg |-> ""]
    ELSE MultiYearResult(var, years, mc, LoadFrames(var, years, yc, rd, fs))

\* ---------------------------------------------------------------- filtering
\* sorted(data[col].dropna()...unique().tolist()), [] when the column is absent
Options(t, col) ==
    IF col \in t.cols
    THEN { t.rows[i][col].v : i \in { j \in DOMAIN t.rows : ~ IsNA(t.rows[j][col]) } }
    ELSE {}

\* filtered[filtered[col].isin(values)]: the values are str, a missing cell is
\* in no list
IsIn(c, values) == c.k = "str" /\ c.v \in values
WhereIsIn(t, col, values) == KeepRows(t, LAMBDA r : IsIn(r[col], values))

\* mutant: the isin filter without its "if selected:" guard
FilterStepUnguarded(t, col, values) == WhereIsIn(t, col, values)

\* if selected: filtered = filtered[filtered[col].isin(selected)]
FilterStep(t, col, values) == IF values # {} THEN WhereIsIn(t, col, values) ELSE t

\* mutant: both status choices compare with True
StatusStepAlwaysTrue(t, col, choice, only, onlyNot) ==
    IF choice \in {only, onlyNot}
    THEN IF col \in t.cols THEN KeepRows(t, LAMBDA r : EqTrue(r[col])) ELSE t
    ELSE t

\* the arrest_filter / domestic_filter branches of the checkpoint
StatusStep(t, col, choice, only, onlyNot) ==
    IF choice = only
    THEN IF col \in t.cols THEN KeepRows(t, LAMBDA r : EqTrue(r[col])) ELSE t
    ELSE IF choice = onlyNot
    THEN IF col \in t.cols THEN KeepRows(t, LAMBDA r : EqFalse(r[col])) ELSE t
    ELSE t

NoSelection ==
    [primary_types |-> {}, districts |-> {}, wards |-> {}, community |-> {},
     beats |-> {}, locations |-> {}, arrest_filter |-> "All", domestic_filter |-> "All"]

\* how many of the filter widgets restrict something
ActiveCount(sel) ==
    Cardinality({ f \in {"primary_types", "districts", "wards", "community", "beats",
                         "locations"} : sel[f] # {} })
    + (IF sel.arrest_filter # "All" THEN 1 ELSE 0)
    + (IF sel.domestic_filter # "All" THEN 1 ELSE 0)

ApplyFiltersApp(t, sel) ==
    LET f1 == FilterStep(t, "Primary Type", sel.primary_types)
        f2 == FilterStep(f1, "District", sel.districts)
    IN FilterStep(f2, "Location Description", sel.locations)

\* mutant: the district filter indexes data instead of filtered
ApplyFiltersCheckpointFromData(t, sel) ==
    LET f2 == FilterStep(t, "District", sel.districts)
        f3 == FilterStep(f2, "Ward", sel.wards)
        f4 == FilterStep(f3, "Community Area", sel.community)
        f5 == FilterStep(f4, "Beat", sel.beats)
        f6 == FilterStep(f5, "Location Description", sel.locations)
        f7 == StatusStep(f6, "Arrest", sel.arrest_filter, "Only Arrests", "Only Non-Arrests")
    IN StatusStep(f7, "Domestic", sel.domestic_filter, "Domestic Only", "Non-Domestic Only")

ApplyFiltersCheckpoint(t, sel) ==
    LET f1 == FilterStep(t, "Primary Type", sel.primary_types)
        f2 == FilterStep(f1, "District", sel.districts)
        f3 == FilterStep(f2, "Ward", sel.wards)
        f4 == FilterStep(f3, "Community Area", sel.community)
        f5 == FilterStep(f4, "Beat", sel.beats)
        f6 == FilterStep(f5, "Location Description", sel.locations)
        f7 == StatusStep(f6, "Arrest", sel.arrest_filter, "Only Arrests", "Only Non-Arrests")
    IN StatusStep(f7, "Domestic", sel.domestic_filter, "Domestic Only", "Non-Domestic Only")

ApplyFiltersFp3(t, sel) == FilterStep(t, "Primary Type", sel.primary_types)

\* the APPLY FILTERS section of the script var
ApplyFilters(var, t, sel) ==
    CASE var = "app" -> ApplyFiltersApp(t, sel)
      [] var = "checkpoint" -> ApplyFiltersCheckpoint(t, sel)
      [] var = "fp3" -> ApplyFiltersFp3(t, sel)
      [] OTHER -> t

\* -------------------------------------------------------------- aggregation
top_n == TopCap

\* the type names of the model in ascending str order (groupby sorts its keys)
KeyOrder == <<"BATTERY", "RESIDENCE", "STREET", "THEFT">>
KeyRank(s) == CHOOSE i \in DOMAIN KeyOrder : KeyOrder[i] = s

RECURSIVE SortKeys(_)
SortKeys(S) ==
    IF S = {} THEN <<>>
    ELSE LET m == CHOOSE x \in S : \A y \in S : KeyRank(x) <= KeyRank(y)
         IN <<m>> \o SortKeys(S \ {m})

CountWhere(t, P(_)) == Len(SelectSeq(t.rows, P))

\* df.groupby(col).size(): one entry per key present, keys ascending, the rows
\* whose key is missing belong to no group (dropna=True is the default)
GroupBySize(t, col) ==
    LET keys == SortKeys(Options(t, col))
    IN [i \in DOMAIN keys |->
          [key |-> keys[i],
           n |-> CountWhere(t, LAMBDA r : ~ IsNA(r[col]) /\ r[col].v = keys[i])]]

\* mutant: the True cells are counted over all rows, not over the rows of the key
GroupByMeanAllRows(t, col, flag) ==
    LET keys == SortKeys(Options(t, col))
    IN [i \in DOMAIN keys |->
          [key |-> keys[i],
           num |-> CountWhere(t, LAMBDA r : EqTrue(r[flag])),
           den |-> CountWhere(t, LAMBDA r : ~ IsNA(r[col]) /\ r[col].v = keys[i])]]

\* df.groupby(col)[flag].mean(): per key the share of True among its rows, kept
\* as the fraction num / den
GroupByMean(t, col, flag) ==
    LET keys == SortKeys(Options(t, col))
    IN [i \in DOMAIN keys |->
          [key |-> keys[i],
           num |-> CountWhere(t, LAMBDA r : ~ IsNA(r[col]) /\ r[col].v = keys[i]
                                            /\ EqTrue(r[flag])),
           den |-> CountWhere(t, LAMBDA r : ~ IsNA(r[col]) /\ r[col].v = keys[i])]]

\* mutant: the entries by ascending count
SortValuesAsc(s) ==
    { p \in [DOMAIN s -> Range(s)] :
        /\ Range(p) = Range(s)
        /\ \A i, j \in DOMAIN p : i < j => p[i].n <= p[j].n }

\* .sort_values("Count", ascending=False) and value_counts(): the entries by
\* descending count; the default sort is not stable, so entries of equal count
\* come in any order
SortValuesDesc(s) ==
    { p \in [DOMAIN s -> Range(s)] :
        /\ Range(p) = Range(s)
        /\ \A i, j \in DOMAIN p : i < j => p[i].n >= p[j].n }

\* mutant: one entry more than asked for
HeadOffByOne(s, n) == SubSeq(s, 1, IF Len(s) < n + 1 THEN Len(s) ELSE n + 1)

\* .head(n)
HeadN(s, n) == SubSeq(s, 1, IF Len(s) < n THEN Len(s) ELSE n)

\* ---- the monthly trend
\* mutant: the keys in the order of their text as the source file writes it
\* (month/day/year)
RawTextRank(v) ==
    CASE v = "2019-03-01 00:00:00" -> 3
      [] v = "2020-01-01 00:00:00" -> 1
      [] v \in {"1", "1.0"} -> 1
      [] v \in {"3", "3.0"} -> 3

\* where a YearMonth timestamp or a month number stands on the time axis
\* (datetime64 and numbers compare by value, not by their text)
TimeRank(v) ==
    CASE v = "2019-03-01 00:00:00" -> 24231
      [] v = "2020-01-01 00:00:00" -> 24241
      [] v \in {"1", "1.0"} -> 1
      [] v \in {"3", "3.0"} -> 3

RECURSIVE SortTimes(_)
SortTimesFrom(S, m) == <<m>> \o SortTimes(S \ {m})
SortTimes(S) ==
    IF S = {} THEN <<>>
    ELSE SortTimesFrom(S, CHOOSE x \in S : \A y \in S : TimeRank(x) <= TimeRank(y))

CountOfKey(t, col, key) ==
    Cardinality({ i \in DOMAIN t.rows : ~ IsNA(t.rows[i][col]) /\ t.rows[i][col].v = key })

SizesOf(t, col, keys) ==
    [i \in DOMAIN keys |-> [key |-> keys[i], n |-> CountOfKey(t, col, keys[i])]]

\* mutant: the rows without a month counted as a group of their own
GroupByTimeKeepNa(t, col) ==
    SizesOf(t, col, SortTimes(Options(t, col)))
    \o (IF \E i \in DOMAIN t.rows : IsNA(t.rows[i][col])
        THEN << [key |-> "NaT",
                 n |-> Cardinality({ i \in DOMAIN t.rows : IsNA(t.rows[i][col]) })] >>
        ELSE <<>>)

\* df.groupby(col).size() on a datetime or numeric column: one entry per value
\* present, ascending by value; the rows without a value are in no group
GroupByTime(t, col) == SizesOf(t, col, SortTimes(Options(t, col)))

\* df.dropna(subset=[col])
DropNa(t, col) == KeepRows(t, LAMBDA r : ~ IsNA(r[col]))

\* app.py: groupby(["YearMonth", "Primary Type"], as_index=False).size(): one
\* entry per pair present, by month and within the month by type
PairsOfMonth(t, ym) ==
    SortKeys({ t.rows[i]["Primary Type"].v :
                 i \in { j \in DOMAIN t.rows : /\ ~ IsNA(t.rows[j]["YearMonth"])
                                                /\ t.rows[j]["YearMonth"].v = ym
                                                /\ ~ IsNA(t.rows[j]["Primary Type"]) } })

CountOfPair(t, ym, type) ==
    Cardinality({ i \in DOMAIN t.rows : /\ ~ IsNA(t.rows[i]["YearMonth"])
                                        /\ t.rows[i]["YearMonth"].v = ym
                                        /\ ~ IsNA(t.rows[i]["Primary Type"])
                                        /\ t.rows[i]["Primary Type"].v = type })

SizesOfMonth(t, ym, types) ==
    [i \in DOMAIN types |-> [key |-> ym, type |-> types[i], n |-> CountOfPair(t, ym, types[i])]]

RECURSIVE TrendOfMonths(_, _)
TrendOfMonths(t, yms) ==
    IF yms = <<>> THEN <<>>
    ELSE SizesOfMonth(t, Head(yms), PairsOfMonth(t, Head(yms))) \o TrendOfMonths(t, Tail(yms))

GroupByTimeAndType(t) == TrendOfMonths(t, SortTimes(Options(t, "YearMonth")))

\* the trend table of a run that ended with out on the filtered table f:
\* the checkpoint's ym_counts (built when some YearMonth is not null), fp3's
\* monthly, app.py's trend_df, fp2's monthly_counts; a run that stopped or
\* raised before that place has none
MonthlyTrend(var, f, out) ==
    CASE var = "checkpoint" /\ out = "done" /\ ~ IsEmpty(f) /\ "YearMonth" \in f.cols
         /\ Options(f, "YearMonth") # {}
           -> GroupByTime(f, "YearMonth")
      [] var = "fp3" /\ out = "done" /\ "YearMonth" \in f.cols
           -> GroupByTime(DropNa(f, "YearMonth"), "YearMonth")
      [] var = "app" /\ out \in {"done", "raised: sample"} /\ "YearMonth" \in f.cols
           -> GroupByTimeAndType(f)
      [] var = "fp2" /\ "Month" \in f.cols /\ out \in {"done", "raised: aggregate"}
           -> GroupByTime(f, "Month")
      [] OTHER -> <<>>

\* the checkpoint's loc_counts at the end of its spatial tab, for a run that
\* ended with out on the filtered table f: the locations by descending count,
\* the first of them (20 in the source)
LocCounts(var, f, out) ==
    IF var = "checkpoint" /\ out = "done" /\ ~ IsEmpty(f) /\ "Location Description" \in f.cols
    THEN { HeadN(order, TopCap) :
             order \in SortValuesDesc(GroupBySize(f, "Location Description")) }
    ELSE {<<>>}

\* ---- the summary metrics
\* arrest_rate = None
NoRate == [defined |-> FALSE, num |-> 0, den |-> 0]
NoMetrics == [arrest |-> NoRate, domestic |-> NoRate]

\* filtered[col].mean() of a column of flags, kept as the fraction num / den
\* (times 100 on the page); on no rows the mean is NaN, the fraction 0 / 0
MeanOf(f, col) ==
    [defined |-> TRUE,
     num |-> Cardinality({ i \in DOMAIN f.rows : EqTrue(f.rows[i][col]) }),
     den |-> Len(f.rows)]

\* app.py: if "Arrest" in filtered.columns: arrest_rate = mean * 100
RateApp(f, col) == IF col \in f.cols THEN MeanOf(f, col) ELSE NoRate

\* checkpoint: if "Arrest" in filtered.columns and total_crimes > 0
RateCheckpoint(f, col) ==
    IF col \in f.cols /\ Len(f.rows) > 0 THEN MeanOf(f, col) ELSE NoRate

\* the metrics of a run that ended with out on the filtered table f: app.py
\* computes them after its filtered.empty stop, the checkpoint before its tabs
\* (a TypeError of mean leaves none); fp3 and fp2 have no rates
SummaryMetrics(var, f, out) ==
    CASE var = "app" /\ out \in {"raised: aggregate", "raised: sample", "done"}
           -> [arrest |-> RateApp(f, "Arrest"), domestic |-> RateApp(f, "Domestic")]
      [] var = "checkpoint" /\ out \in {"raised: aggregate", "done"}
           -> [arrest |-> RateCheckpoint(f, "Arrest"),
               domestic |-> RateCheckpoint(f, "Domestic")]
      [] OTHER -> NoMetrics

\* ----------------------------------------------------------------- sampling
\* .dropna(subset=["Latitude", "Longitude"])
HasCoords(r) == ~ IsNA(r["Latitude"]) /\ ~ IsNA(r["Longitude"])
DropNaCoords(t) == KeepRows(t, HasCoords)

Injective(p) == \A i, j \in DOMAIN p : i # j => p[i] # p[j]

\* the positions numpy's RandomState(42) draws for n of len rows: fixed by the
\* seed, len and n
SeededPositions(len, n) == CHOOSE p \in [1..n -> 1..len] : Injective(p)

\* mutant: a sample without random_state draws any n rows
SampleUnseeded(t, n) ==
    { [i \in 1..n |-> t.rows[p[i]]] : p \in { q \in [1..n -> 1..Len(t.rows)] : Injective(q) } }

\* DataFrame.sample(n=n, random_state=42) on a frame with at least n rows: the
\* rows it can return
Sample(t, n) == { [i \in 1..n |-> t.rows[SeededPositions(Len(t.rows), n)[i]]] }

NoSample == [raised |-> FALSE, rows |-> <<>>]
SampleError == [raised |-> TRUE, rows |-> <<>>]
Sampled(rows) == [raised |-> FALSE, rows |-> rows]
HasCoordColumns(t) == {"Latitude", "Longitude"} \subseteq t.cols
Min(a, b) == IF a < b THEN a ELSE b

\* app.py: sample_size = min(5000, len(filtered)); the rows with coordinates,
\* sampled down to sample_size when filtered has more rows than that; sample()
\* raises ValueError when fewer rows than sample_size have coordinates
SpatialSampleApp(f) ==
    IF ~ HasCoordColumns(f) THEN {NoSample}
    ELSE IF Len(f.rows) > Min(SampleCap, Len(f.rows))
    THEN IF Len(DropNaCoords(f).rows) < Min(SampleCap, Len(f.rows))
         THEN {SampleError}
         ELSE { Sampled(rows) : rows \in Sample(DropNaCoords(f), Min(SampleCap, Len(f.rows))) }
    ELSE {Sampled(DropNaCoords(f).rows)}

\* checkpoint and fp3: the rows with coordinates, sampled down when they are
\* more than the cap
SpatialSampleOfSubset(f) ==
    IF ~ HasCoordColumns(f) THEN {NoSample}
    ELSE IF Len(DropNaCoords(f).rows) > SampleCap
    THEN { Sampled(rows) : rows \in Sample(DropNaCoords(f), SampleCap) }
    ELSE {Sampled(DropNaCoords(f).rows)}

\* ------------------------------------------------------------- script runs
LastYear == RangeStop - 1
NoFile == [exists |-> FALSE, df |-> EmptyFrame]

\* st.multiselect("Years"): the chosen years in the order they were chosen
YearLists ==
    { s \in UNION { [1..n -> YEAR_TO_FILE] : n \in 0..NumYears } :
        \A i, j \in DOMAIN s : i # j => s[i] # s[j] }

RunEnabled == runs_left > 0

\* the page of a session that has not run the script yet
NoView ==
    [selected_years |-> <<>>, data |-> EmptyFrame, selected |-> NoSelection,
     filtered |-> EmptyFrame, driver_df |-> <<>>, driver_chart |-> <<>>,
     spatial_sample |-> <<>>, arrest_df |-> <<>>, crime_by_type |-> <<>>,
     type_counts |-> <<>>, crime_counts |-> <<>>, message |-> "", outcome |-> "init"]

\* mutant: script variables that live in the process, not in the script run,
\* so that every session sees what the last run computed
ObservedByAll(vs, s, view) == [t \in DOMAIN vs |-> view]

\* a script run executes in a namespace of its own and renders to the page of
\* its own session only
Observed(vs, s, view) == [vs EXCEPT ![s] = view]

Results(years, df, sel, f, drv, bars, smp, arr, cbt, tc, cc, msg, out) ==
    /\ runs_left' = runs_left - 1
    /\ selected_years' = years
    /\ data' = df
    /\ selected' = sel
    /\ filtered' = f
    /\ driver_df' = drv
    /\ driver_chart' = bars
    /\ spatial_sample' = smp
    /\ arrest_df' = arr
    /\ crime_by_type' = cbt
    /\ type_counts' = tc
    /\ crime_counts' = cc
    /\ message' = msg
    /\ outcome' = out
    /\ monthly' = MonthlyTrend(variant, f, out)
    /\ loc_counts' \in LocCounts(variant, f, out)
    /\ metrics' = SummaryMetrics(variant, f, out)
    /\ UNCHANGED <<sessions, flight, lock>>
    /\ \E s \in sessions :
         /\ session' = s
         /\ views' = Observed(views, s,
                              [selected_years |-> selected_years', data |-> data',
                               selected |-> selected', filtered |-> filtered',
                               driver_df |-> driver_df', driver_chart |-> driver_chart',
                               spatial_sample |-> spatial_sample',
                               arrest_df |-> arrest_df', crime_by_type |-> crime_by_type',
                               type_counts |-> type_counts', crime_counts |-> crime_counts',
                               message |-> message', outcome |-> outcome'])

Aborted(years, msg, out) ==
    Results(years, EmptyFrame, NoSelection, EmptyFrame, <<>>, <<>>, <<>>, <<>>, <<>>, <<>>,
            <<>>, msg, out)

NoAggregates(years, df, sel, f, msg, out) ==
    Results(years, df, sel, f, <<>>, <<>>, <<>>, <<>>, <<>>, <<>>, <<>>, msg, out)

\* ---- src/app.py
\* tab 2 and tab 3: the spatial sample, whose ValueError ends the run, then
\* arrest_df
AppSpatial(years, df, sel, f, bars, smp) ==
    IF smp.raised
    THEN Results(years, df, sel, f, GroupBySize(f, "Primary Type"), bars, <<>>, <<>>,
                 <<>>, <<>>, <<>>, "ValueError", "raised: sample")
    ELSE Results(years, df, sel, f, GroupBySize(f, "Primary Type"), bars, smp.rows,
                 IF "Arrest" \in f.cols THEN GroupByMean(f, "Primary Type", "Arrest")
                                        ELSE <<>>,
                 <<>>, <<>>, <<>>, "", "done")

\* tab 1: driver_df, which driver_chart shows with x sorted by "-y" (the bars
\* by descending Crime Count), and district_df; both group without asking
\* whether the column is there
AppAggregate(years, df, sel, f) ==
    IF "Primary Type" \notin f.cols
    THEN NoAggregates(years, df, sel, f, "KeyError", "raised: aggregate")
    ELSE IF "District" \notin f.cols
    THEN Results(years, df, sel, f, GroupBySize(f, "Primary Type"), <<>>, <<>>, <<>>,
                 <<>>, <<>>, <<>>, "KeyError", "raised: aggregate")
    ELSE \E bars \in SortValuesDesc(GroupBySize(f, "Primary Type")) :
           \E smp \in SpatialSampleApp(f) :
             AppSpatial(years, df, sel, f, bars, smp)

\* mutant: no stop on an empty filtered table
AppFilteredUnguarded(years, df, sel, f) == AppAggregate(years, df, sel, f)

\* after APPLY FILTERS: if filtered.empty: st.error, st.stop
AppFiltered(years, df, sel, f) ==
    IF IsEmpty(f)
    THEN NoAggregates(years, df, sel, f, "error: no data left after filters",
                      "stopped: no rows")
    ELSE AppAggregate(years, df, sel, f)

\* mutant: the filter works on data itself instead of on a copy
AppSelectedInPlace(years, df, sel) ==
    /\ ActiveCount(sel) <= MaxActive
    /\ AppFiltered(years, ApplyFilters("app", df, sel), sel, ApplyFilters("app", df, sel))

AppSelected(years, df, sel) ==
    /\ ActiveCount(sel) <= MaxActive
    /\ AppFiltered(years, df, sel, ApplyFilters("app", df, sel))

\* the three multiselects, their options taken from data
AppWidgets(years, df) ==
    \E types \in SUBSET Options(df, "Primary Type"),
       districts \in SUBSET Options(df, "District"),
       locations \in SUBSET Options(df, "Location Description") :
      AppSelected(years, df, [NoSelection EXCEPT !.primary_types = types,
                                                 !.districts = districts,
                                                 !.locations = locations])

\* mutant: a failed load handed on as an empty table, which the filtered.empty
\* check then reports
AppLoadedEmptyOnError(years, ld) ==
    /\ year_cache' = ld.yc
    /\ multi_cache' = ld.mc
    /\ reads' = ld.rd
    /\ IF ld.raised
       THEN AppFiltered(years, EmptyFrame, NoSelection, EmptyFrame)
       ELSE AppWidgets(years, ld.df)

AppLoaded(years, ld) ==
    /\ year_cache' = ld.yc
    /\ multi_cache' = ld.mc
    /\ reads' = ld.rd
    /\ IF ld.raised
       THEN Aborted(years, ld.msg, "raised: load")
       ELSE AppWidgets(years, ld.df)

\* one run of src/app.py
RunApp ==
    /\ variant = "app"
    /\ RunEnabled
    /\ UNCHANGED <<variant, files>>
    /\ \E years \in YearLists :
         IF years = <<>>
         THEN /\ UNCHANGED <<year_cache, multi_cache, reads>>
              /\ Aborted(years, "warning: select at least one year", "stopped: no years")
         ELSE AppLoaded(years, LoadMultiYearData("app", years, year_cache, multi_cache,
                                                 reads, files))

\* ---- src/.ipynb_checkpoints/app-checkpoint.py
\* mutant: the tabs without their filtered.empty guards
CheckpointAggregateUnguarded(years, df, sel, f) ==
    \E order \in SortValuesDesc(GroupBySize(f, "Primary Type")) :
      \E smp \in SpatialSampleOfSubset(f) :
        Results(years, df, sel, f, <<>>, <<>>, smp.rows, <<>>, HeadN(order, top_n),
                order, <<>>, "", "done")

\* Series.mean() of a column that holds text raises TypeError
MeanRaises(f, col) ==
    col \in f.cols /\ \E i \in DOMAIN f.rows : f.rows[i][col].k = "str"

\* the metrics, then the tabs: crime_by_type, type_counts and the spatial
\* subset, each guarded by filtered.empty
CheckpointAggregate(years, df, sel, f) ==
    IF IsEmpty(f)
    THEN NoAggregates(years, df, sel, f, "warning: no data for the selected filters", "done")
    ELSE IF MeanRaises(f, "Arrest") \/ MeanRaises(f, "Domestic")
    THEN NoAggregates(years, df, sel, f, "TypeError", "raised: metrics")
    ELSE IF "Primary Type" \notin f.cols
    THEN NoAggregates(years, df, sel, f, "KeyError", "raised: aggregate")
    ELSE \E order \in SortValuesDesc(GroupBySize(f, "Primary Type")) :
           \E smp \in SpatialSampleOfSubset(f) :
             Results(years, df, sel, f, <<>>, <<>>, smp.rows, <<>>, HeadN(order, top_n),
                     order, <<>>, "", "done")

CheckpointSelected(years, df, sel) ==
    /\ ActiveCount(sel) <= MaxActive
    /\ CheckpointAggregate(years, df, sel, ApplyFilters("checkpoint", df, sel))

\* the six multiselects and the two selectboxes
CheckpointWidgets(years, df) ==
    \E types \in SUBSET Options(df, "Primary Type"),
       districts \in SUBSET Options(df, "District"),
       wards \in SUBSET Options(df, "Ward"),
       community \in SUBSET Options(df, "Community Area"),
       beats \in SUBSET Options(df, "Beat"),
       locations \in SUBSET Options(df, "Location Description"),
       arrest_filter \in {"All", "Only Arrests", "Only Non-Arrests"},
       domestic_filter \in {"All", "Domestic Only", "Non-Domestic Only"} :
      CheckpointSelected(years, df,
                         [primary_types |-> types, districts |-> districts,
                          wards |-> wards, community |-> community, beats |-> beats,
                          locations |-> locations, arrest_filter |-> arrest_filter,
                          domestic_filter |-> domestic_filter])

CheckpointLoaded(years, ld) ==
    /\ year_cache' = ld.yc
    /\ multi_cache' = ld.mc
    /\ reads' = ld.rd
    /\ IF ld.raised
       THEN Aborted(years, ld.msg, "raised: load")
       ELSE CheckpointWidgets(years, ld.df)

\* one run of the checkpoint: selected_years = [selected_year]
RunCheckpoint ==
    /\ variant = "checkpoint"
    /\ RunEnabled
    /\ UNCHANGED <<variant, files>>
    /\ \E year \in YEAR_TO_FILE :
         CheckpointLoaded(<<year>>, LoadMultiYearData("checkpoint", <<year>>, year_cache,
                                                      multi_cache, reads, files))

\* ---- src/project/project fp3/app.py
Fp3Filtered(years, df, sel, f) ==
    IF IsEmpty(f)
    THEN NoAggregates(years, df, sel, f, "warning: no incidents left after filters",
                      "stopped: no rows")
    ELSE \E smp \in SpatialSampleOfSubset(f) :
           Results(years, df, sel, f, <<>>, <<>>, smp.rows, <<>>, <<>>, <<>>, <<>>, "", "done")

Fp3Selected(years, df, sel) ==
    /\ ActiveCount(sel) <= MaxActive
    /\ Fp3Filtered(years, df, sel, ApplyFilters("fp3", df, sel))

Fp3Loaded(years, one) ==
    /\ year_cache' = one.yc
    /\ reads' = one.rd
    /\ IF IsEmpty(one.df)
       THEN NoAggregates(years, one.df, NoSelection, EmptyFrame, one.msg, "stopped: no data")
       ELSE \E types \in SUBSET Options(one.df, "Primary Type") :
              Fp3Selected(years, one.df, [NoSelection EXCEPT !.primary_types = types])

\* one run of fp3
RunFp3 ==
    /\ variant = "fp3"
    /\ RunEnabled
    /\ UNCHANGED <<variant, files, multi_cache>>
    /\ \E year \in YEAR_TO_FILE :
         Fp3Loaded(<<year>>, LoadYearData("fp3", year, year_cache, reads, files))

\* ---- src/project/project fp2/app_experiment.py (its columns primary_type,
\* date, month, latitude, ... are written with the names of the CSV variants;
\* it has no filter, so filtered is df)
\* tab 2: df["month"] = df["date"].dt.month adds a column to df
AddMonth(t) ==
    [cols |-> t.cols \cup {"Month"},
     rows |-> [i \in DOMAIN t.rows |->
                 [c \in t.cols \cup {"Month"} |->
                    IF c = "Month" THEN DtMonth(t.rows[i]["Date"], HasNaT(t))
                    ELSE t.rows[i][c]]]]

\* tab 1: crime_counts; tab 2: the month column; tab 3: the rows with
\* coordinates; none of them asks whether its column is there
Fp2Tabs(years, df, order) ==
    IF "Date" \notin df.cols
    THEN Results(years, df, NoSelection, df, <<>>, <<>>, <<>>, <<>>, <<>>, <<>>, order,
                 "KeyError", "raised: aggregate")
    ELSE IF ~ HasCoordColumns(df)
    THEN Results(years, AddMonth(df), NoSelection, AddMonth(df), <<>>, <<>>, <<>>, <<>>,
                 <<>>, <<>>, order, "KeyError", "raised: aggregate")
    ELSE Results(years, AddMonth(df), NoSelection, AddMonth(df), <<>>, <<>>,
                 DropNaCoords(AddMonth(df)).rows, <<>>, <<>>, <<>>, order, "", "done")

Fp2Loaded(years, one) ==
    /\ year_cache' = one.yc
    /\ reads' = one.rd
    /\ IF IsEmpty(one.df)
       THEN NoAggregates(years, one.df, NoSelection, EmptyFrame,
                         "warning: no data available for the selected year",
                         "stopped: no data")
       ELSE IF "Primary Type" \notin one.df.cols
       THEN NoAggregates(years, one.df, NoSelection, one.df, "KeyError", "raised: aggregate")
       ELSE \E order \in SortValuesDesc(GroupBySize(one.df, "Primary Type")) :
              Fp2Tabs(years, one.df, order)

\* one run of fp2
RunFp2 ==
    /\ variant = "fp2"
    /\ RunEnabled
    /\ UNCHANGED <<variant, files, multi_cache>>
    /\ \E year \in YEAR_TO_FILE :
         Fp2Loaded(<<year>>, LoadYearData("fp2", year, year_cache, reads, files))

Next == RunApp \/ RunCheckpoint \/ RunFp3 \/ RunFp2

\* ---- one call of load_year_data, step by step (st.cache_data's wrapper):
\* look the key up; on a miss take the key's compute lock and look again; still
\* a miss: run the function, store its value, release the lock
Idle == [pc |-> "idle", year |-> 0, df |-> EmptyFrame, msg |-> "", via |-> ""]

\* what the script run does not touch while a call is in flight
runVars ==
    <<variant, multi_cache, runs_left, selected_years, data, selected, filtered, driver_df,
      driver_chart, spatial_sample, arrest_df, crime_by_type, type_counts, crime_counts,
      message, outcome, sessions, session, views, monthly, loc_counts, metrics>>

\* mutant: a memo without the per-key compute lock
LockIgnored(l, year) == TRUE

\* the key's compute lock is free
LockFree(l, year) == l[year] = 0

\* the first lookup, outside the lock
FlightCall(s, year) ==
    /\ flight[s].pc = "idle"
    /\ flight' = [flight EXCEPT ![s] =
                    IF Cached(year_cache, year)
                    THEN [pc |-> "returned", year |-> year, df |-> year_cache[year].df,
                          msg |-> year_cache[year].msg, via |-> "hit"]
                    ELSE [pc |-> "miss", year |-> year, df |-> EmptyFrame, msg |-> "",
                          via |-> ""]]
    /\ UNCHANGED <<files, year_cache, reads, lock>>
    /\ UNCHANGED runVars

\* with cache.compute_value_lock(value_key): the second lookup; a hit returns
\* and releases the lock at once
FlightAcquire(s) ==
    /\ flight[s].pc = "miss"
    /\ LockFree(lock, flight[s].year)
    /\ IF Cached(year_cache, flight[s].year)
       THEN /\ flight' = [flight EXCEPT ![s] =
                            [pc |-> "returned", year |-> flight[s].year,
                             df |-> year_cache[flight[s].year].df,
                             msg |-> year_cache[flight[s].year].msg, via |-> "second lookup"]]
            /\ lock' = lock
       ELSE /\ flight' = [flight EXCEPT ![s].pc = "computing"]
            /\ lock' = [lock EXCEPT ![flight[s].year] = s]
    /\ UNCHANGED <<files, year_cache, reads>>
    /\ UNCHANGED runVars

\* the body of load_year_data runs; an exception leaves the lock and stores
\* nothing
FlightComputed(s, one) ==
    /\ reads' = one.rd
    /\ IF one.raised
       THEN /\ flight' = [flight EXCEPT ![s] = [pc |-> "raised", year |-> flight[s].year,
                                                df |-> EmptyFrame, msg |-> one.msg, via |-> ""]]
            /\ lock' = [lock EXCEPT ![flight[s].year] = 0]
       ELSE /\ flight' = [flight EXCEPT ![s] = [pc |-> "computed", year |-> flight[s].year,
                                                df |-> one.df, msg |-> one.msg, via |-> "computed"]]
            /\ lock' = lock

FlightCompute(s) ==
    /\ flight[s].pc = "computing"
    /\ FlightComputed(s, LoadYearData(variant, flight[s].year,
                                      [year_cache EXCEPT ![flight[s].year] = NotCached],
                                      reads, files))
    /\ UNCHANGED <<files, year_cache>>
    /\ UNCHANGED runVars

\* cache.write_result(value_key, computed_value, messages), end of the with block
FlightStore(s) ==
    /\ flight[s].pc = "computed"
    /\ year_cache' = [year_cache EXCEPT ![flight[s].year] =
                        [hit |-> TRUE, df |-> flight[s].df, msg |-> flight[s].msg]]
    /\ lock' = [lock EXCEPT ![flight[s].year] = 0]
    /\ flight' = [flight EXCEPT ![s].pc = "returned"]
    /\ UNCHANGED <<files, reads>>
    /\ UNCHANGED runVars

\* the environment: the file of a year appears, goes or is replaced
SourceChanges(year, file) ==
    /\ file # files[year]
    /\ files' = [files EXCEPT ![year] = file]
    /\ UNCHANGED <<year_cache, reads, flight, lock>>
    /\ UNCHANGED runVars

\* the environment while the process serves runs: the file of a year that had
\* none is put in place
SourceAppears(year, file) ==
    /\ RunEnabled
    /\ ~ files[year].exists
    /\ file.exists
    /\ files' = [files EXCEPT ![year] = file]
    /\ UNCHANGED <<year_cache, reads, flight, lock>>
    /\ UNCHANGED runVars

\* ------------------------------------------------------------ source files
Cell0(col) ==
    CASE col = "Primary Type" -> StrCell("THEFT")
      [] col = "District" -> FloatCell("1.0")
      [] col = "Ward" -> FloatCell("7.0")
      [] col = "Community Area" -> FloatCell("25.0")
      [] col = "Beat" -> IntCell("111")
      [] col = "Location Description" -> StrCell("STREET")
      [] col = "Arrest" -> PyTrue
      [] col = "Domestic" -> PyFalse
      [] col = "Date" -> StrCell("01/15/2020 01:30:00 PM")
      [] col = "Latitude" -> FloatCell("41.88")
      [] col = "Longitude" -> FloatCell("-87.63")

BaseRow == [c \in AllCols |-> Cell0(c)]

\* the rows of the enumerated files: the base row and the rows that differ from
\* it in one column (another value, or a missing one)
RowPool ==
    {BaseRow}
    \cup { [BaseRow EXCEPT !["Primary Type"] = x] : x \in {StrCell("BATTERY"), NA} }
    \cup { [BaseRow EXCEPT !["District"] = x] : x \in {FloatCell("2.0"), NA} }
    \cup { [BaseRow EXCEPT !["Ward"] = NA],
           [BaseRow EXCEPT !["Community Area"] = NA],
           [BaseRow EXCEPT !["Beat"] = IntCell("112")],
           [BaseRow EXCEPT !["Location Description"] = NA],
           [BaseRow EXCEPT !["Arrest"] = PyFalse],
           [BaseRow EXCEPT !["Arrest"] = FlagNA],
           [BaseRow EXCEPT !["Domestic"] = PyTrue] }
    \cup { [BaseRow EXCEPT !["Date"] = x] :
             x \in {StrCell("03/02/2019 09:05:00 AM"), StrCell("not a date"), NA} }
    \cup { [BaseRow EXCEPT !["Latitude"] = NA] }

ColumnSets == {AllCols, AllCols \ {"Arrest"}}

MkTable(cols, rows) ==
    [cols |-> cols, rows |-> [i \in DOMAIN rows |-> [c \in cols |-> rows[i][c]]]]

\* scenario A of the spec: THEFT/true, THEFT/false, BATTERY/true
ScenarioA ==
    MkTable(AllCols, << BaseRow,
                        [BaseRow EXCEPT !["Arrest"] = PyFalse],
                        [BaseRow EXCEPT !["Primary Type"] = StrCell("BATTERY")] >>)

\* scenario C of the spec: five rows, two of them with Arrest true
ScenarioC ==
    MkTable(AllCols, << [BaseRow EXCEPT !["Arrest"] = PyFalse],
                        BaseRow,
                        [BaseRow EXCEPT !["Arrest"] = PyFalse, !["District"] = FloatCell("2.0")],
                        [BaseRow EXCEPT !["Primary Type"] = StrCell("BATTERY")],
                        [BaseRow EXCEPT !["Arrest"] = PyFalse, !["Domestic"] = PyTrue] >>)

RawTables ==
    { MkTable(cols, rows) :
        cols \in ColumnSets,
        rows \in UNION { [1..n -> RowPool] : n \in 0..MaxRows } }
    \cup {ScenarioA, ScenarioC}

InitProcess ==
    /\ variant \in Variants
    /\ year_cache = [y \in YEAR_TO_FILE |-> NotCached]
    /\ multi_cache = [s \in YearLists |-> NotCached]
    /\ reads = [y \in YEAR_TO_FILE |-> 0]
    /\ selected_years = <<>>
    /\ data = EmptyFrame
    /\ selected = NoSelection
    /\ filtered = EmptyFrame
    /\ driver_df = <<>>
    /\ driver_chart = <<>>
    /\ spatial_sample = <<>>
    /\ arrest_df = <<>>
    /\ crime_by_type = <<>>
    /\ type_counts = <<>>
    /\ crime_counts = <<>>
    /\ message = ""
    /\ outcome = "init"
    /\ session = 1
    /\ views = [s \in 1..NumSessions |-> NoView]
    /\ monthly = <<>>
    /\ loc_counts = <<>>
    /\ metrics = NoMetrics
    /\ flight = [s \in 1..NumSessions |-> Idle]
    /\ lock = [y \in YEAR_TO_FILE |-> 0]

\* the source store holds one enumerated file, for the last registered year;
\* the process serves one run
Init ==
    /\ InitProcess
    /\ sessions = {1}
    /\ runs_left = 1
    /\ \E t \in RawTables :
         files = [y \in YEAR_TO_FILE |->
                    IF y = LastYear THEN [exists |-> TRUE, df |-> t] ELSE NoFile]

Spec == Init /\ [][Next]_vars

\* the loading specification: every registered year has a one-row file, a
\* two-row file or none, and the process serves MaxRuns runs; the files have the
\* columns the tabs need, and only the first has an Arrest column
LoadCols == {"Primary Type", "District", "Date", "Latitude", "Longitude"}

SmallFiles ==
    { [exists |-> TRUE, df |-> MkTable(LoadCols \cup {"Arrest"}, <<BaseRow>>)],
      [exists |-> TRUE,
       df |-> MkTable(LoadCols, <<[BaseRow EXCEPT !["Primary Type"] = StrCell("BATTERY")],
                                  BaseRow>>)],
      NoFile }

InitLoad ==
    /\ InitProcess
    /\ sessions = {1}
    /\ runs_left = MaxRuns
    /\ files \in [YEAR_TO_FILE -> SmallFiles]

SpecLoad == InitLoad /\ [][Next]_vars

\* the flag specification: the file of the last year has rows whose Arrest or
\* Domestic cell takes every encoding pandas.read_csv can deliver
FlagTexts ==
    { <<"t","r","u","e">>, <<"T","r","u","e">>, <<"T","R","U","E">>, <<"t">>, <<"1">>,
      <<"y","e","s">>, <<"Y">>, <<" ","y","e","s"," ">>,
      <<"f","a","l","s","e">>, <<"0">>, <<"n","o">>, <<"n">>, <<"1",".","0">> }

FlagCells ==
    {PyTrue, PyFalse, FlagNA}
    \cup { [k |-> "int", v |-> x] : x \in {<<"1">>, <<"0">>} }
    \cup { [k |-> "float", v |-> x] : x \in {<<"1",".","0">>, <<"0",".","0">>} }
    \cup { [k |-> "str", v |-> x] : x \in FlagTexts }

\* the kinds pandas.read_csv gives the cells of one column
WellTypedColumn(kinds) ==
    \/ kinds \subseteq {"bool", "na"}
    \/ kinds \subseteq {"int"}
    \/ kinds \subseteq {"float", "na"}
    \/ kinds \subseteq {"str", "na"}

WellTyped(t) ==
    \A c \in t.cols : WellTypedColumn({ t.rows[i][c].k : i \in DOMAIN t.rows })

FlagRows ==
    { [BaseRow EXCEPT !["Arrest"] = x] : x \in FlagCells }
    \cup { [BaseRow EXCEPT !["Domestic"] = x] : x \in FlagCells }

FlagTables ==
    { t \in { MkTable(AllCols, rows) : rows \in UNION { [1..n -> FlagRows] : n \in 1..MaxRows } } :
        WellTyped(t) }

InitFlags ==
    /\ InitProcess
    /\ sessions = {1}
    /\ runs_left = 1
    /\ \E t \in FlagTables :
         files = [y \in YEAR_TO_FILE |->
                    IF y = LastYear THEN [exists |-> TRUE, df |-> t] ELSE NoFile]

SpecFlags == InitFlags /\ [][Next]_vars

\* the column specification: the file of the last year has all the columns or
\* lacks one of them
ColumnRows ==
    { BaseRow, [BaseRow EXCEPT !["Primary Type"] = StrCell("BATTERY")] }

ColumnTables ==
    { MkTable(cols, rows) :
        cols \in {AllCols} \cup { AllCols \ {c} : c \in AllCols },
        rows \in UNION { [1..n -> ColumnRows] : n \in 1..MaxRows } }

InitColumns ==
    /\ InitProcess
    /\ sessions = {1}
    /\ runs_left = 1
    /\ \E t \in ColumnTables :
         files = [y \in YEAR_TO_FILE |->
                    IF y = LastYear THEN [exists |-> TRUE, df |-> t] ELSE NoFile]

SpecColumns == InitColumns /\ [][Next]_vars

\* the session specification: NumSessions browser sessions share the process
\* and its memo; each of the MaxRuns script runs belongs to one of them
InitSessions ==
    /\ InitProcess
    /\ sessions = 1..NumSessions
    /\ runs_left = MaxRuns
    /\ files \in [YEAR_TO_FILE -> SmallFiles]

SpecSessions == InitSessions /\ [][Next]_vars

\* the trend specification: the file of the last year has rows of two months,
\* of an unreadable date and of no date, of two types, in any order
TrendRows ==
    { [BaseRow EXCEPT !["Date"] = d, !["Primary Type"] = StrCell(p)] :
        d \in {StrCell("01/15/2020 01:30:00 PM"), StrCell("03/02/2019 09:05:00 AM"),
               StrCell("not a date"), NA},
        p \in {"THEFT", "BATTERY"} }

TrendLen == MaxRows + 1

TrendTables ==
    { MkTable(cols, rows) :
        cols \in {AllCols, AllCols \ {"Date"}},
        rows \in UNION { [1..n -> TrendRows] : n \in 0..TrendLen } }

InitTrend ==
    /\ InitProcess
    /\ sessions = {1}
    /\ runs_left = 1
    /\ \E t \in TrendTables :
         files = [y \in YEAR_TO_FILE |->
                    IF y = LastYear THEN [exists |-> TRUE, df |-> t] ELSE NoFile]

SpecTrend == InitTrend /\ [][Next]_vars

\* the top-N specification: the file of the last year has rows of two types
\* and two locations, some without a location
TopRows ==
    { [BaseRow EXCEPT !["Primary Type"] = StrCell(p), !["Location Description"] = l] :
        p \in {"THEFT", "BATTERY"},
        l \in {StrCell("STREET"), StrCell("RESIDENCE"), NA} }

TopTables ==
    { MkTable(cols, rows) :
        cols \in {AllCols, AllCols \ {"Location Description"}},
        rows \in UNION { [1..n -> TopRows] : n \in 0..TrendLen } }

InitTop ==
    /\ InitProcess
    /\ sessions = {1}
    /\ runs_left = 1
    /\ \E t \in TopTables :
         files = [y \in YEAR_TO_FILE |->
                    IF y = LastYear THEN [exists |-> TRUE, df |-> t] ELSE NoFile]

SpecTop == InitTop /\ [][Next]_vars

\* the signal specification: two sessions, the first year without a file, the
\* last year with rows that a choice of filters leaves none of
TwoDistricts ==
    MkTable(AllCols, << BaseRow,
                        [BaseRow EXCEPT !["Primary Type"] = StrCell("BATTERY"),
                                        !["District"] = FloatCell("2.0")] >>)

InitSignals ==
    /\ InitProcess
    /\ sessions = 1..NumSessions
    /\ runs_left = MaxRuns
    /\ files = [y \in YEAR_TO_FILE |->
                  IF y = LastYear THEN [exists |-> TRUE, df |-> TwoDistricts] ELSE NoFile]

SpecSignals == InitSignals /\ [][Next]_vars

\* the store specification: runs of one process, between which the file of a
\* year may appear
Appear == \E year \in YEAR_TO_FILE : \E file \in SmallFiles : SourceAppears(year, file)

NextStore == RunApp \/ RunCheckpoint \/ RunFp3 \/ RunFp2 \/ Appear

SpecStore == InitLoad /\ [][NextStore]_vars

\* the flight specification: the sessions call load_year_data at the same
\* time, each once, while the source store changes
Call == \E s \in sessions : \E year \in YEAR_TO_FILE : FlightCall(s, year)
Acquire == \E s \in sessions : FlightAcquire(s)
Compute == \E s \in sessions : FlightCompute(s)
Store == \E s \in sessions : FlightStore(s)
Change == \E year \in YEAR_TO_FILE : \E file \in SmallFiles : SourceChanges(year, file)

NextFlight == Call \/ Acquire \/ Compute \/ Store \/ Change

InitFlight ==
    /\ InitProcess
    /\ sessions = 1..NumSessions
    /\ runs_left = 0
    /\ files \in [YEAR_TO_FILE -> SmallFiles]

SpecFlight == InitFlight /\ [][NextFlight]_vars

\* ------------------------------------------------------------------ claims
\* the run got as far as the APPLY FILTERS section
FilterRan ==
    /\ variant \in {"app", "checkpoint", "fp3"}
    /\ outcome \in {"stopped: no rows", "raised: metrics", "raised: aggregate",
                    "raised: sample", "done"}

Dims == {"primary_types", "districts", "wards", "community", "beats", "locations"}

DimCol(d) ==
    CASE d = "primary_types" -> "Primary Type"
      [] d = "districts" -> "District"
      [] d = "wards" -> "Ward"
      [] d = "community" -> "Community Area"
      [] d = "beats" -> "Beat"
      [] d = "locations" -> "Location Description"

FlagIsTrue(c) ==
    c.k \in {"bool", "int", "float"} /\ c.v \in {<<"T","r","u","e">>, <<"1">>, <<"1",".","0">>}
FlagIsFalse(c) ==
    c.k \in {"bool", "int", "float"} /\ c.v \in {<<"F","a","l","s","e">>, <<"0">>, <<"0",".","0">>}

\* the row meets every supplied predicate; a status choice on a column the
\* table does not have restricts nothing
RowSatisfies(t, sel, r) ==
    /\ \A d \in Dims :
         sel[d] # {} => /\ DimCol(d) \in t.cols
                        /\ ~ IsNA(r[DimCol(d)])
                        /\ r[DimCol(d)].v \in sel[d]
    /\ (sel.arrest_filter = "Only Arrests" /\ "Arrest" \in t.cols) => FlagIsTrue(r["Arrest"])
    /\ (sel.arrest_filter = "Only Non-Arrests" /\ "Arrest" \in t.cols) => FlagIsFalse(r["Arrest"])
    /\ (sel.domestic_filter = "Domestic Only" /\ "Domestic" \in t.cols)
         => FlagIsTrue(r["Domestic"])
    /\ (sel.domestic_filter = "Non-Domestic Only" /\ "Domestic" \in t.cols)
         => FlagIsFalse(r["Domestic"])

\* C1: the filtered table is exactly the rows of the loaded table that meet all
\* supplied predicates at once (value in every non-empty predicate set, arrest
\* and domestic status matched when not "All"), in input order and with the
\* same columns; an empty predicate restricts nothing.
C1_FilterIsConjunction ==
    FilterRan =>
        /\ filtered.cols = data.cols
        /\ filtered.rows = SelectSeq(data.rows, LAMBDA r : RowSatisfies(data, selected, r))

\* C1 witness: a checkpoint run with a district and an arrest predicate on a
\* two-row table; both rows are in a selected district, one of them is not an
\* arrest, and only the other is kept
C1_Witness ==
    /\ variant = "checkpoint"
    /\ FilterRan
    /\ selected.districts # {}
    /\ selected.arrest_filter = "Only Arrests"
    /\ "Arrest" \in data.cols
    /\ Len(data.rows) = 2
    /\ Len(filtered.rows) = 1
    /\ \A i \in 1..2 : data.rows[i]["District"].v \in selected.districts
    /\ \E i \in 1..2 : FlagIsFalse(data.rows[i]["Arrest"])

\* C2: with every predicate empty (nothing selected, arrest and domestic
\* status "All") the filtered table has the rows and columns of its input.
C2_EmptyPredicatesIdentity ==
    (FilterRan /\ selected = NoSelection) => filtered = data

\* C2 witness: a run without any selection on a two-row table with a missing
\* crime type
C2_Witness ==
    /\ FilterRan
    /\ selected = NoSelection
    /\ Len(filtered.rows) = 2
    /\ \E i \in 1..2 : IsNA(data.rows[i]["Primary Type"])

\* C3: for every filter dimension, selecting all the values the column offers
\* gives the same filtered table as selecting nothing in that dimension, also
\* when some rows have a missing value in the column.
C3_SelectAllIsNoFilter ==
    FilterRan =>
        \A d \in Dims :
            (selected[d] # {} /\ selected[d] = Options(data, DimCol(d)))
                => filtered = ApplyFilters(variant, data, [selected EXCEPT ![d] = {}])

\* C3: the case without missing values, where selecting all restricts nothing
C3_SelectAllWithoutMissing ==
    FilterRan =>
        \A d \in Dims :
            ( /\ selected[d] # {}
              /\ selected[d] = Options(data, DimCol(d))
              /\ \A i \in DOMAIN data.rows : ~ IsNA(data.rows[i][DimCol(d)]) )
                => filtered = ApplyFilters(variant, data, [selected EXCEPT ![d] = {}])

\* the run that ends in the next state loaded year y by itself and got a table
LoadedAlone(y) ==
    /\ selected_years' = <<y>>
    /\ outcome' \in {"stopped: no data", "stopped: no rows", "done"}

\* C4: in one process the source of a year is read at most once; once the year
\* is in the memo its entry is never replaced or dropped, no later load reads
\* the source again, and a later load of the year returns the content of the
\* memo entry, which is what the first load returned (fp2 then adds its month
\* column to the copy it got).
C4_ReadAtMostOnce ==
    [][ \A y \in YEAR_TO_FILE :
          /\ reads'[y] <= 1
          /\ year_cache[y].hit =>
               /\ year_cache'[y] = year_cache[y]
               /\ reads'[y] = reads[y]
               /\ (LoadedAlone(y) /\ variant = "fp3") => data' = year_cache[y].df
               /\ (LoadedAlone(y) /\ variant = "fp2")
                    => data' = IF outcome' = "done" THEN AddMonth(year_cache[y].df)
                                                    ELSE year_cache[y].df
               /\ (LoadedAlone(y) /\ variant \in {"app", "checkpoint"})
                    => data' = Derive(variant, Concat(<<year_cache[y].df>>)) ]_vars

\* C4 witness: two runs of fp3 have loaded the same year and no other; its
\* source was read once
C4_Witness ==
    /\ variant = "fp3"
    /\ runs_left = MaxRuns - 2
    /\ outcome = "done"
    /\ \E y \in YEAR_TO_FILE :
         /\ selected_years = <<y>>
         /\ reads[y] = 1
         /\ \A z \in YEAR_TO_FILE \ {y} : ~ year_cache[z].hit

\* C5: a load of a year whose source is not there does not raise; loaded by
\* itself it gives an empty table together with a message.
C5_MissingSourceIsEmptyResult ==
    /\ (\E i \in DOMAIN selected_years : ~ files[selected_years[i]].exists)
         => outcome # "raised: load"
    /\ (Len(selected_years) = 1 /\ ~ files[selected_years[1]].exists)
         => (IsEmpty(data) /\ message # "")

\* the run loaded the file of one year with app or checkpoint
FlagsLoaded ==
    /\ variant \in {"app", "checkpoint"}
    /\ outcome \in {"stopped: no rows", "raised: metrics", "done"}
    /\ Len(selected_years) = 1

\* the texts the flag contract names as true and as false (an empty text of a
\* CSV file arrives as a missing value)
ContractTrueTexts ==
    { <<"t","r","u","e">>, <<"T","r","u","e">>, <<"T","R","U","E">>, <<"t">>, <<"1">>,
      <<"y","e","s">>, <<"Y">> }
ContractFalseTexts == { <<"f","a","l","s","e">>, <<"0">>, <<"n","o">>, <<"n">> }

FlagContract(raw, cell) ==
    /\ FlagIsTrue(cell) \/ FlagIsFalse(cell)
    /\ (raw.k = "str" /\ raw.v \in ContractTrueTexts) => FlagIsTrue(cell)
    /\ (raw.k = "na" \/ (raw.k = "str" /\ raw.v \in ContractFalseTexts)) => FlagIsFalse(cell)

\* C6: after loading, every Arrest and Domestic cell is true or false, whatever
\* the raw value was (boolean, 0/1, text, missing); the texts true, True, TRUE,
\* t, 1, yes, Y have become true and false, 0, no, n and missing have become
\* false.
C6_FlagNormalizationTotal ==
    FlagsLoaded =>
        \A i \in DOMAIN data.rows : \A c \in Range(FlagCols) :
            FlagContract(files[selected_years[1]].df.rows[i][c], data.rows[i][c])

\* C6: the same for app.py alone, whose loader normalises the flags
C6_FlagNormalizationApp ==
    (FlagsLoaded /\ variant = "app") =>
        \A i \in DOMAIN data.rows : \A c \in Range(FlagCols) :
            FlagContract(files[selected_years[1]].df.rows[i][c], data.rows[i][c])

\* a checkpoint run whose only predicate is the arrest status
ArrestStatusOnly(choice) ==
    /\ variant = "checkpoint"
    /\ FilterRan
    /\ "Arrest" \in data.cols
    /\ selected = [NoSelection EXCEPT !.arrest_filter = choice]

\* C7: with "Only Arrests" as the only predicate the filtered table is exactly
\* the rows whose Arrest flag is true, with "Only Non-Arrests" exactly those
\* whose flag is false; the kept rows are in input order and every cell of
\* theirs is the cell of the loaded table.
C7_ArrestStatusExact ==
    /\ ArrestStatusOnly("Only Arrests") =>
         /\ filtered.cols = data.cols
         /\ filtered.rows = SelectSeq(data.rows, LAMBDA r : FlagIsTrue(r["Arrest"]))
    /\ ArrestStatusOnly("Only Non-Arrests") =>
         /\ filtered.cols = data.cols
         /\ filtered.rows = SelectSeq(data.rows, LAMBDA r : FlagIsFalse(r["Arrest"]))

\* C7 witness: scenario C, five rows of which two are arrests; "Only Arrests"
\* keeps those two
C7_Witness ==
    /\ ArrestStatusOnly("Only Arrests")
    /\ Len(data.rows) = 5
    /\ Cardinality({ i \in DOMAIN data.rows : FlagIsTrue(data.rows[i]["Arrest"]) }) = 2
    /\ Len(filtered.rows) = 2
    /\ filtered.rows = <<data.rows[2], data.rows[4]>>

\* the run drew its charts
Aggregated == outcome = "done" /\ variant \in {"app", "checkpoint", "fp2"}

RECURSIVE SumCounts(_)
SumCounts(list) == IF list = <<>> THEN 0 ELSE Head(list).n + SumCounts(Tail(list))

\* the counts by type the variant computes
CountTable ==
    CASE variant = "app" -> driver_df
      [] variant = "checkpoint" -> type_counts
      [] OTHER -> crime_counts

\* C8: the counts by type add up to the number of rows of the filtered table,
\* rows without a type included.
C8_CountsSumToTotal ==
    Aggregated => SumCounts(CountTable) = Len(filtered.rows)

\* the types that occur in the table, and the rows of one type
TypesPresent(t) ==
    { t.rows[i]["Primary Type"].v :
        i \in { j \in DOMAIN t.rows : t.rows[j]["Primary Type"].k = "str" } }
RowsOfType(t, type) ==
    { i \in DOMAIN t.rows :
        t.rows[i]["Primary Type"].k = "str" /\ t.rows[i]["Primary Type"].v = type }

\* one entry per type present, with its number of rows, by descending count
IsCountBy(list, t) ==
    /\ Len(list) = Cardinality(TypesPresent(t))
    /\ { list[i].key : i \in DOMAIN list } = TypesPresent(t)
    /\ \A i \in DOMAIN list : list[i].n = Cardinality(RowsOfType(t, list[i].key))
    /\ \A i, j \in DOMAIN list : i < j => list[i].n >= list[j].n

\* one entry per type present: its arrests (num) over its rows (den)
IsRateBy(list, t) ==
    /\ Len(list) = Cardinality(TypesPresent(t))
    /\ { list[i].key : i \in DOMAIN list } = TypesPresent(t)
    /\ \A i \in DOMAIN list :
         /\ list[i].den = Cardinality(RowsOfType(t, list[i].key))
         /\ list[i].num = Cardinality({ r \in RowsOfType(t, list[i].key) :
                                         FlagIsTrue(t.rows[r]["Arrest"]) })

RatesComputed == variant = "app" /\ outcome = "done" /\ "Arrest" \in filtered.cols

\* C10: every type with at least one row in the filtered table has an arrest
\* rate, and it lies between 0 and 1; a type without rows in the filtered table
\* has no entry.
C10_RateInUnitInterval ==
    RatesComputed =>
        /\ \A type \in TypesPresent(filtered) :
             \E i \in DOMAIN arrest_df :
               /\ arrest_df[i].key = type
               /\ arrest_df[i].den >= 1
               /\ 0 <= arrest_df[i].num
               /\ arrest_df[i].num <= arrest_df[i].den
        /\ \A i \in DOMAIN arrest_df : arrest_df[i].key \in TypesPresent(filtered)

\* C10 witness: the loaded table has a THEFT arrest and a BATTERY arrest, the
\* filter keeps THEFT only; THEFT has the rate 1/1 and BATTERY has no entry
C10_Witness ==
    /\ RatesComputed
    /\ TypesPresent(data) = {"THEFT", "BATTERY"}
    /\ selected.primary_types = {"THEFT"}
    /\ \A i \in DOMAIN data.rows : FlagIsTrue(data.rows[i]["Arrest"])
    /\ arrest_df = <<[key |-> "THEFT", num |-> 1, den |-> 1]>>

\* the table the loader returned to the last run, as the memo holds it
LoadedTable ==
    IF variant \in {"app", "checkpoint"}
    THEN multi_cache[selected_years].df
    ELSE year_cache[selected_years[1]].df

\* C11: filtering leaves the loaded table alone: after every run that filtered,
\* whatever the predicates, data is still the table the loader returned, and a
\* later run on the same years finds the same data; the result is the separate
\* table filtered.
C11_FilterKeepsInput ==
    [][ FilterRan' =>
          /\ data' = LoadedTable'
          /\ (FilterRan /\ selected_years' = selected_years) => data' = data ]_vars

\* C11 witness: the second run of app.py in a process; its filter kept one of
\* the two loaded rows
C11_Witness ==
    /\ variant = "app"
    /\ runs_left = MaxRuns - 2
    /\ outcome = "done"
    /\ selected.primary_types # {}
    /\ Len(data.rows) = 2
    /\ Len(filtered.rows) = 1
    /\ data = LoadedTable

\* the filter of the last run left no row
EmptyResult == FilterRan /\ IsEmpty(filtered)

AggregatesEmpty ==
    /\ driver_df = <<>>
    /\ driver_chart = <<>>
    /\ spatial_sample = <<>>
    /\ arrest_df = <<>>
    /\ crime_by_type = <<>>
    /\ type_counts = <<>>
    /\ crime_counts = <<>>

\* C12: a filter that leaves no row ends the run without an exception: the run
\* either stops after its message (app.py, fp3) or goes through all its tabs
\* (checkpoint), every aggregate is empty, and the user is told that no data
\* is left.
C12_EmptyResultIsHandled ==
    EmptyResult =>
        /\ outcome \in {"stopped: no rows", "done"}
        /\ AggregatesEmpty
        /\ message # ""

\* C12 witness: a checkpoint run whose two predicates exclude both loaded rows
\* and which went through its tabs
C12_Witness ==
    /\ variant = "checkpoint"
    /\ EmptyResult
    /\ outcome = "done"
    /\ Len(data.rows) = 2
    /\ ActiveCount(selected) = 2

\* the columns the file of the last run has
SourceCols == files[selected_years[1]].df.cols

Raised == outcome \in {"raised: load", "raised: metrics", "raised: aggregate", "raised: sample"}

\* C13: when the loaded file lacks an expected column, no step of the run
\* raises, and nothing is derived from a Date column that is not there.
C13_MissingColumnNeverRaises ==
    (Len(selected_years) = 1 /\ SourceCols # AllCols) =>
        /\ ~ Raised
        /\ "Date" \notin SourceCols => data.cols \cap (TemporalCols \ {"Year"}) = {}

\* C13: the columns whose absence the scripts do handle (the options, the
\* filter, the derivation and the guarded tabs skip them)
C13_GuardedColumns ==
    ( /\ Len(selected_years) = 1
      /\ variant \in {"app", "checkpoint", "fp3"}
      /\ {"Primary Type", "District"} \subseteq SourceCols ) => ~ Raised

\* the rows of the file the last run loaded
SourceRows == files[selected_years[1]].df.rows

\* the last run loaded one year's file that has a Date column
DateLoaded ==
    /\ variant \in {"app", "checkpoint", "fp3"}
    /\ Len(selected_years) = 1
    /\ "Date" \in SourceCols
    /\ outcome \notin {"init", "stopped: no years"}

\* a date text that is missing or that does not parse
BadDate(c) == IsNA(c) \/ (c.k = "str" /\ ~ Parseable(c.v))

\* the row carries the calendar fields of the entry (a whole number may be
\* held as an integer or as a float)
DerivedFrom(r, e) ==
    /\ r["Date"] = DatetimeCell(e.iso)
    /\ r["Year"].k \in {"int", "float"} /\ r["Year"].v \in {e.year, e.yearf}
    /\ r["Month"].k \in {"int", "float"} /\ r["Month"].v \in {e.month, e.monthf}
    /\ r["Hour"].k \in {"int", "float"} /\ r["Hour"].v \in {e.hour, e.hourf}
    /\ r["YearMonth"] = DatetimeCell(e.ym)
    /\ "Weekday" \in DOMAIN r => r["Weekday"] = StrCell(e.weekday)

\* C14: a row whose date text is missing or does not parse is kept, with a
\* null Date and null Year, Month, YearMonth, Weekday and Hour; the load does
\* not abort, and every other row has the fields of its own date.
C14_BadDateIsNullNotFatal ==
    DateLoaded =>
        /\ outcome # "raised: load"
        /\ Len(data.rows) = Len(SourceRows)
        /\ \A i \in DOMAIN data.rows :
             IF BadDate(SourceRows[i]["Date"])
             THEN /\ data.rows[i]["Date"] = NaT
                  /\ \A c \in DerivedCols(variant) : IsNA(data.rows[i][c])
             ELSE DerivedFrom(data.rows[i], CalendarOfRaw(SourceRows[i]["Date"].v))

\* C14 witness: app.py loaded a file whose first date does not parse and whose
\* second does, and went through its tabs
C14_Witness ==
    /\ DateLoaded
    /\ variant = "app"
    /\ outcome = "done"
    /\ Len(data.rows) = 2
    /\ SourceRows[1]["Date"] = StrCell("not a date")
    /\ data.rows[1]["Date"] = NaT
    /\ data.rows[2]["Year"] = FloatCell("2020.0")

\* the number of records in the files of the years, a year without a file
\* having none
RECURSIVE SourceRowCount(_)
SourceRowCount(years) ==
    IF years = <<>> THEN 0
    ELSE Len(files[Head(years)].df.rows) + SourceRowCount(Tail(years))

\* the last run got a table from its loader
TableLoaded == outcome \notin {"init", "stopped: no years", "raised: load"}

\* C15: the loaded table has one row per record of the files of the selected
\* years, duplicates included, and the memo of a year holds as many rows as the
\* year's file; deriving keeps the row count.
C15_RowCountIsSourceCount ==
    /\ TableLoaded => Len(data.rows) = SourceRowCount(selected_years)
    /\ \A y \in YEAR_TO_FILE :
         year_cache[y].hit => Len(year_cache[y].df.rows) = Len(files[y].df.rows)
    /\ \A s \in YearLists :
         multi_cache[s].hit => Len(multi_cache[s].df.rows) = SourceRowCount(s)

\* C15 witness: app.py loaded two years whose files are the same one-row file
\* and the table has both rows
C15_Witness ==
    /\ variant = "app"
    /\ outcome = "done"
    /\ Len(selected_years) = 2
    /\ files[selected_years[1]] = files[selected_years[2]]
    /\ Len(data.rows) = 2
    /\ data.rows[1] = data.rows[2]

\* the values of a column, row by row
ColumnOf(t, c) == [i \in DOMAIN t.rows |-> t.rows[i][c]]

\* C16: deriving the table a load returned once more gives the same Date, Year,
\* Month, YearMonth, Weekday and Hour for every row.
C16_DeriveTemporalIdempotent ==
    (TableLoaded /\ "Date" \in data.cols) =>
        /\ Len(Derive(variant, data).rows) = Len(data.rows)
        /\ \A c \in (TemporalCols \cup {"Date"}) \cap data.cols :
             ColumnOf(Derive(variant, data), c) = ColumnOf(data, c)

\* C16 witness: fp3, which parses without asking for the column's type, loaded
\* a parsed date next to a date that did not parse
C16_Witness ==
    /\ variant = "fp3"
    /\ outcome = "done"
    /\ Len(data.rows) = 2
    /\ data.rows[1]["Date"] = DatetimeCell("2019-03-02 09:05:00")
    /\ data.rows[1]["Hour"] = FloatCell("9.0")
    /\ data.rows[2]["Date"] = NaT
    /\ Derive(variant, data).rows[1]["Date"] = DatetimeCell("2019-03-02 09:05:00")

\* the files of the years, in the order of the years
SourceFrames(years) == [i \in DOMAIN years |-> files[years[i]].df]

\* the Primary Type cells of the files of the years, year after year
RECURSIVE SourceTypes(_)
SourceTypes(years) ==
    IF years = <<>> THEN <<>>
    ELSE ColumnOf(files[Head(years)].df, "Primary Type") \o SourceTypes(Tail(years))

\* C17: the table load_multi_year_data returns is the derivation of the
\* concatenation of the year files in the order the years were selected; the
\* year loader's memo holds the rows as read, not derived.
C17_DeriveOnceAfterConcat ==
    variant \in {"app", "checkpoint"} =>
        /\ TableLoaded => data = Derive(variant, Concat(SourceFrames(selected_years)))
        /\ TableLoaded => ColumnOf(data, "Primary Type") = SourceTypes(selected_years)
        /\ \A s \in YearLists :
             multi_cache[s].hit =>
                 multi_cache[s].df = Derive(variant, Concat(SourceFrames(s)))
        /\ \A y \in YEAR_TO_FILE : year_cache[y].hit => year_cache[y].df = files[y].df

\* C17 witness: app.py loaded a later year before an earlier one; the later
\* year's two rows come first, and their Arrest cells, absent from that file,
\* were filled by the concatenation and then normalised
C17_Witness ==
    /\ variant = "app"
    /\ outcome = "done"
    /\ Len(selected_years) = 2
    /\ selected_years[1] > selected_years[2]
    /\ "Arrest" \notin files[selected_years[1]].df.cols
    /\ "Arrest" \in files[selected_years[2]].df.cols
    /\ Len(data.rows) = 3
    /\ data.rows[1]["Primary Type"] = StrCell("BATTERY")
    /\ data.rows[1]["Arrest"] = PyFalse
    /\ data.rows[3]["Arrest"] = PyTrue

\* the last run drew its spatial sample
SampleRan ==
    /\ variant \in {"app", "checkpoint", "fp3"}
    /\ outcome = "done"
    /\ HasCoordColumns(filtered)
    /\ ~ IsEmpty(filtered)

SampleStepReached ==
    /\ variant \in {"app", "checkpoint", "fp3"}
    /\ outcome \in {"raised: sample", "done"}
    /\ HasCoordColumns(filtered)
    /\ ~ IsEmpty(filtered)

\* every row of the sample is a row of the filtered table with coordinates
SampleFromFiltered ==
    \A i \in DOMAIN spatial_sample :
        /\ HasCoords(spatial_sample[i])
        /\ \E j \in DOMAIN filtered.rows : filtered.rows[j] = spatial_sample[i]

\* C19: for a non-empty filtered table with Latitude and Longitude the sampling
\* step succeeds and yields at most the cap of rows, each a row of the filtered
\* table with coordinates.
C19_SampleSucceedsWithinCap ==
    SampleStepReached =>
        /\ outcome = "done"
        /\ Len(spatial_sample) <= SampleCap
        /\ SampleFromFiltered

\* C19: what the scripts do: a sample that succeeds is within the cap and from
\* the filtered rows with coordinates; only app.py fails, and only when more
\* rows than the cap are filtered and fewer than the cap have coordinates
C19_SampleWithinCapUnlessRaised ==
    SampleStepReached =>
        /\ outcome = "done" => (Len(spatial_sample) <= SampleCap /\ SampleFromFiltered)
        /\ outcome = "raised: sample" =>
              /\ variant = "app"
              /\ Len(filtered.rows) > SampleCap
              /\ Len(DropNaCoords(filtered).rows) < SampleCap

\* the last run loaded one year's file through the geographic normalisation
GeoLoaded ==
    /\ variant \in {"app", "checkpoint"}
    /\ Len(selected_years) = 1
    /\ TableLoaded

\* the canonical text of an identifier: a whole number without its ".0"
CanonicalId(c) ==
    IF c.k # "float" THEN c.v
    ELSE CASE c.v = "1.0" -> "1"
           [] c.v = "2.0" -> "2"
           [] c.v = "7.0" -> "7"
           [] c.v = "25.0" -> "25"
           [] OTHER -> c.v

\* C20: every present District, Ward, Community Area and Beat value is loaded
\* as its canonical text (10 and 10.0 both as "10"), and normalising the loaded
\* value again changes nothing.
C20_GeoIdIsCanonicalText ==
    GeoLoaded =>
        \A c \in Range(GeoCols) \cap data.cols : \A i \in DOMAIN data.rows :
            /\ ~ IsNA(SourceRows[i][c]) => data.rows[i][c] = StrCell(CanonicalId(SourceRows[i][c]))
            /\ NormalizeGeo(variant, c, data.rows[i][c]) = data.rows[i][c]

\* C20: what the scripts do: a present value becomes the text pandas prints for
\* it ("1.0" for the float 1.0 of a column with missing values), and
\* normalising again changes nothing
C20_GeoIdIsPrintedText ==
    GeoLoaded =>
        \A c \in Range(GeoCols) \cap data.cols : \A i \in DOMAIN data.rows :
            /\ ~ IsNA(SourceRows[i][c]) => data.rows[i][c] = StrCell(SourceRows[i][c].v)
            /\ NormalizeGeo(variant, c, data.rows[i][c]) = data.rows[i][c]

\* the table a run on the years gets from its loader, as the files give it
TableOfYears(years) ==
    CASE variant \in {"app", "checkpoint"} -> Derive(variant, Concat(SourceFrames(years)))
      [] OTHER -> IF files[years[1]].exists
                  THEN ReadCsv(variant, files[years[1]].df, years[1])
                  ELSE EmptyFrame

\* the view shows a loaded table
ViewLoaded(v) == v.outcome \notin {"init", "stopped: no years", "raised: load"}

\* the table and the filtered table of a view are those of its own years and
\* widget values
ViewIsOwn(v) ==
    ViewLoaded(v) =>
        /\ v.data = IF variant = "fp2" /\ v.outcome = "done"
                    THEN AddMonth(TableOfYears(v.selected_years))
                    ELSE TableOfYears(v.selected_years)
        /\ v.outcome # "stopped: no data" =>
              v.filtered = IF variant = "fp2" THEN v.data
                           ELSE ApplyFilters(variant, v.data, v.selected)

\* C21: with the sessions' script runs interleaved in any order over the
\* shared memo, a run changes the page of its own session only, leaves every
\* memo entry as it was, and every page shows the table and the filter result
\* of its own years and widget values.
C21_SessionsAreIsolated ==
    /\ [](\A t \in 1..NumSessions : ViewIsOwn(views[t]))
    /\ [][ /\ \A t \in 1..NumSessions : t # session' => views'[t] = views[t]
           /\ \A y \in YEAR_TO_FILE : year_cache[y].hit => year_cache'[y] = year_cache[y]
           /\ \A l \in YearLists : multi_cache[l].hit => multi_cache'[l] = multi_cache[l]
       ]_vars

\* C21 witness: two sessions of fp2 went through their tabs on the same year;
\* both pages have the month column, the memo's table, read once, has not
C21_Witness ==
    /\ variant = "fp2"
    /\ views[1].outcome = "done"
    /\ views[2].outcome = "done"
    /\ views[1].selected_years = views[2].selected_years
    /\ "Month" \in views[1].data.cols
    /\ "Month" \in views[2].data.cols
    /\ "Month" \notin year_cache[views[1].selected_years[1]].df.cols
    /\ reads[views[1].selected_years[1]] = 1

\* ---- C22
\* the tables load_year_data can return for a year, whatever the store holds
LoaderValues(year) ==
    {ReadCsv(variant, f.df, year) : f \in {g \in SmallFiles : g.exists}} \cup {EmptyFrame}

\* the call of session s has returned a table of the year
Returned(s, year) == flight[s].pc = "returned" /\ flight[s].year = year

NoSourceView(v) ==
    /\ v.outcome \notin {"init", "stopped: no years"}
    /\ \E i \in DOMAIN v.selected_years : ~ files[v.selected_years[i]].exists

\* the run behind the view loaded rows and its filters left none
FilterEmptiedView(v) ==
    /\ ViewLoaded(v)
    /\ v.data.rows # <<>>
    /\ v.filtered.rows = <<>>

ChronologicalMonths == <<"2019-03-01 00:00:00", "2020-01-01 00:00:00">>
MonthPosition(ym) == CHOOSE i \in DOMAIN ChronologicalMonths : ChronologicalMonths[i] = ym

\* the rows of t that fall into the month ym
RowsOfMonth(t, ym) ==
    { i \in DOMAIN t.rows : t.rows[i]["YearMonth"] = DatetimeCell(ym) }

\* the run of the checkpoint or of fp3 came to its monthly trend
TrendExpected ==
    /\ variant \in {"checkpoint", "fp3"}
    /\ outcome = "done"
    /\ ~ IsEmpty(filtered)
    /\ "YearMonth" \in filtered.cols

\* C24: the monthly trend has exactly one entry for every month in which the
\* filtered table has a row, with the number of those rows, the earlier month
\* first; a month without rows has no entry and the rows without a month are
\* in none
C24_MonthlyTrendIsSparseAndOrdered ==
    TrendExpected =>
        /\ \A i \in DOMAIN monthly :
              /\ monthly[i].key \in Range(ChronologicalMonths)
              /\ monthly[i].n = Cardinality(RowsOfMonth(filtered, monthly[i].key))
              /\ monthly[i].n >= 1
        /\ \A ym \in Range(ChronologicalMonths) :
              RowsOfMonth(filtered, ym) # {} => \E i \in DOMAIN monthly : monthly[i].key = ym
        /\ \A i, j \in DOMAIN monthly :
              i < j => MonthPosition(monthly[i].key) < MonthPosition(monthly[j].key)

\* rows of the later month come first in the file, a row has no month, and
\* the trend has both months
C24_Witness ==
    /\ TrendExpected
    /\ Len(monthly) = 2
    /\ filtered.rows[1]["YearMonth"] = DatetimeCell("2020-01-01 00:00:00")
    /\ \E i \in DOMAIN filtered.rows : IsNA(filtered.rows[i]["YearMonth"])

\* ---- C25
\* the first row of t whose type is key
FirstSeen(t, key) ==
    CHOOSE i \in DOMAIN t.rows :
        /\ t.rows[i]["Primary Type"] = StrCell(key)
        /\ \A j \in DOMAIN t.rows : t.rows[j]["Primary Type"] = StrCell(key) => i <= j

\* entries of equal count stand in the order in which t first shows their keys
TiesInEncounterOrder(counts, t) ==
    \A i, j \in DOMAIN counts :
        i < j /\ counts[i].n = counts[j].n =>
            FirstSeen(t, counts[i].key) < FirstSeen(t, counts[j].key)

\* C25: in crime_by_type, type_counts and crime_counts, which are ordered by
\* descending count, types of equal count come in the order in which the
\* filtered rows first show them
C25_TiesInEncounterOrder ==
    outcome = "done" =>
        /\ TiesInEncounterOrder(crime_by_type, filtered)
        /\ TiesInEncounterOrder(type_counts, filtered)
        /\ TiesInEncounterOrder(crime_counts, filtered)

\* ---- C26
Smaller(a, b) == IF a < b THEN a ELSE b

\* the rows of t whose col is key
RowsOfKey(t, col, key) == { i \in DOMAIN t.rows : t.rows[i][col] = StrCell(key) }

KeysOf(counts) == { counts[i].key : i \in DOMAIN counts }

\* counts holds n groups of col, or all of them when they are fewer, each
\* with its number of rows, and no group left out has more rows than a group
\* that is in
IsTopN(counts, t, col, n) ==
    /\ Len(counts) = Smaller(n, Cardinality(Options(t, col)))
    /\ Cardinality(KeysOf(counts)) = Len(counts)
    /\ \A i \in DOMAIN counts :
          /\ counts[i].n = Cardinality(RowsOfKey(t, col, counts[i].key))
          /\ counts[i].n >= 1
          /\ \A key \in Options(t, col) \ KeysOf(counts) :
                Cardinality(RowsOfKey(t, col, key)) <= counts[i].n

TopNBuilt == variant = "checkpoint" /\ outcome = "done" /\ ~ IsEmpty(filtered)

\* C26: the checkpoint's crime_by_type and loc_counts hold the top N groups
\* of the filtered table: min(N, number of groups) entries, and every group
\* left out has at most as many rows as every group kept
C26_TopNTruncation ==
    TopNBuilt =>
        /\ IsTopN(crime_by_type, filtered, "Primary Type", top_n)
        /\ "Location Description" \in filtered.cols =>
              IsTopN(loc_counts, filtered, "Location Description", TopCap)

\* more types and more locations than N, of different counts
C26_Witness ==
    /\ TopNBuilt
    /\ Cardinality(Options(filtered, "Primary Type")) > top_n
    /\ Cardinality(Options(filtered, "Location Description")) > TopCap
    /\ Len(crime_by_type) = top_n
    /\ Len(loc_counts) = TopCap
    /\ crime_by_type[1].n = 2
    /\ loc_counts[1].n = 2

\* ---- C27
\* the step is a run of fp3 or fp2 for the year
RunsFor(year) ==
    /\ variant \in {"fp3", "fp2"}
    /\ runs_left' = runs_left - 1
    /\ selected_years' = <<year>>

\* C27: in fp3 and fp2 a load that fails leaves an empty table in the memo,
\* the entry of a year never changes, and a run for a year whose entry is
\* empty gets the empty table and stops without reading, whether the year has
\* a file by then or not
C27_FailedLoadIsMemoized ==
    [][\A year \in YEAR_TO_FILE :
         /\ year_cache[year].hit => year_cache'[year] = year_cache[year]
         /\ (RunsFor(year) /\ ~ year_cache[year].hit /\ ~ files[year].exists) =>
               /\ year_cache'[year].hit
               /\ IsEmpty(year_cache'[year].df)
         /\ (RunsFor(year) /\ year_cache[year].hit /\ IsEmpty(year_cache[year].df)) =>
               /\ reads' = reads
               /\ IsEmpty(data')
               /\ outcome' = "stopped: no data"]_vars

\* the last run of fp3 asked for a year whose file had appeared after the
\* failed load: the file has rows and was never read, the run stopped on the
\* memoized empty table (no file appears after the last run)
C27_Witness ==
    /\ variant = "fp3"
    /\ runs_left = 0
    /\ Len(selected_years) = 1
    /\ files[selected_years[1]].exists
    /\ files[selected_years[1]].df.rows # <<>>
    /\ reads[selected_years[1]] = 0
    /\ year_cache[selected_years[1]].hit
    /\ IsEmpty(year_cache[selected_years[1]].df)
    /\ IsEmpty(data)
    /\ outcome = "stopped: no data"

\* ---- C28
\* C28: a District, Ward, Community Area or Beat that is missing in the source
\* is missing in the loaded table, and every option the widgets offer for the
\* column is the value of a row whose source value is present
C28_MissingGeoIdStaysMissing ==
    GeoLoaded =>
        \A c \in Range(GeoCols) \cap data.cols :
            /\ \A i \in DOMAIN data.rows :
                  IsNA(SourceRows[i][c]) => IsNA(data.rows[i][c])
            /\ \A v \in Options(data, c) :
                  \E j \in DOMAIN data.rows :
                      ~ IsNA(SourceRows[j][c]) /\ data.rows[j][c] = StrCell(v)

\* ---- C29
\* the result of the run's other predicates with the status widget of the
\* flag set to choice
WithStatus(flag, choice) ==
    ApplyFilters(variant, data,
                 IF flag = "Arrest" THEN [selected EXCEPT !.arrest_filter = choice]
                 ELSE [selected EXCEPT !.domestic_filter = choice])

\* the rows of yes and of no are apart and together they are the rows of any
Partition(yes, no, any) ==
    /\ Range(yes.rows) \cap Range(no.rows) = {}
    /\ Range(yes.rows) \cup Range(no.rows) = Range(any.rows)
    /\ Len(yes.rows) + Len(no.rows) = Len(any.rows)

\* C29: for every loaded table of the checkpoint with an Arrest column, the
\* rows of "Only Arrests" and of "Only Non-Arrests" partition the rows of
\* "All" under the same other filters, and likewise for Domestic
C29_StatusPartition ==
    (variant = "checkpoint" /\ TableLoaded) =>
        /\ "Arrest" \in data.cols =>
              Partition(WithStatus("Arrest", "Only Arrests"),
                        WithStatus("Arrest", "Only Non-Arrests"),
                        WithStatus("Arrest", "All"))
        /\ "Domestic" \in data.cols =>
              Partition(WithStatus("Domestic", "Domestic Only"),
                        WithStatus("Domestic", "Non-Domestic Only"),
                        WithStatus("Domestic", "All"))

\* ---- C30
\* the run stopped itself
Halted == outcome \in {"stopped: no years", "stopped: no data", "stopped: no rows"}

\* a rate that is a number between 0 and 100
RateInRange(r) == r.den >= 1 /\ 0 <= r.num /\ r.num <= r.den

\* C30: in app.py, fp3 and fp2 a run without a selected year, with an empty
\* loaded table or with an empty filtered table stops before its metrics and
\* aggregations, so that these are only made of a table with rows and the
\* rates app.py shows are numbers between 0 and 100
C30_HaltsBeforeMetricsOnEmpty ==
    (variant # "checkpoint" /\ outcome \notin {"init", "raised: load"}) =>
        /\ (selected_years = <<>> \/ IsEmpty(data) \/ IsEmpty(filtered)) =>
              /\ Halted
              /\ AggregatesEmpty
              /\ monthly = <<>>
              /\ metrics = NoMetrics
        /\ metrics.arrest.defined => RateInRange(metrics.arrest)
        /\ metrics.domestic.defined => RateInRange(metrics.domestic)
        /\ (variant = "app" /\ ~ Halted /\ "Arrest" \in filtered.cols) =>
              metrics.arrest.defined

\* app.py loaded two rows with their flags, the filters left none, and the
\* run stopped
C30_Witness ==
    /\ variant = "app"
    /\ outcome = "stopped: no rows"
    /\ Len(data.rows) = 2
    /\ {"Arrest", "Domestic"} \subseteq data.cols
    /\ IsEmpty(filtered)
    /\ metrics = NoMetrics

====
